---------------------------- MODULE Spec2Model ----------------------------
(***************************************************************************)
(* State-machine model of the RSP vector coprocessor (COP2) of r64emu,     *)
(* src/src/sp/cop2.rs: the register context, the VU opcode dispatcher      *)
(* (uop), the COP2 moves, the vector loads and stores (lwc / swc) and the  *)
(* register access of the Cop trait (reg / set_reg).                       *)
(*                                                                         *)
(* Representation.  TLC integers are 32 bits wide, so every value wider    *)
(* than 16 bits is kept as a string of narrower digits:                    *)
(*   VectorReg  the storage self.0 as its 8 little-endian 16-bit words,    *)
(*              word j being the storage bytes 2j and 2j + 1,               *)
(*   M128       an __m128i as its 8 16-bit words, word 0 least significant,*)
(*   U128       a u128 as its 16 bytes, byte 0 most significant,           *)
(*   U32        a u32 as [hi, lo], two 16-bit halves,                      *)
(*   U64        a u64 as 4 16-bit limbs, limb 0 least significant.         *)
(* All u128 shifts of the source are by multiples of 8 bits and are        *)
(* modelled as byte shifts.                                                *)
(***************************************************************************)
EXTENDS Integers, Sequences, FiniteSets, TLC

VARIABLES
    ctx,              \* SpCop2Context: vregs, accum, flags, div latches
    regs,             \* CpuContext.regs: 32 scalar registers (U64)
    dmem,             \* Sp.dmem: 4 KiB of DMEM followed by the 16 mirror bytes,
                      \* kept as the map of the bytes written over DmemImage
    ret,              \* outcome of the last call: "ok", "break", "panic", "abort"
    hist,             \* the last calls, newest first, each with the state before it
    steps             \* number of calls made

vars == <<ctx, regs, dmem, ret, hist, steps>>

-----------------------------------------------------------------------------
(* Bounds of the model *)

\* calls per behaviour of the general specification
MaxSteps == 2

-----------------------------------------------------------------------------
(* Program constants *)

REG_VCO == 32
REG_VCC == 33
REG_VCE == 34
REG_ACCUM_LO == 35
REG_ACCUM_MD == 36
REG_ACCUM_HI == 37
\* 0x1000, the size of DMEM proper
DMEM_SIZE == 4096
\* the excess bytes after DMEM that lxv mirrors into
DMEM_MIRROR == 16

W16 == 65536

-----------------------------------------------------------------------------
(* Plain integer helpers *)

RECURSIVE Pow2(_)
Pow2(n) == IF n = 0 THEN 1 ELSE 2 * Pow2(n - 1)

Bit(x, i) == (x \div Pow2(i)) % 2

\* u16 as i16
S16(x) == IF x >= 32768 THEN x - W16 ELSE x
\* i16 (or any small integer) as u16, wrapping
U16(x) == x % W16

Min(a, b) == IF a < b THEN a ELSE b
Max(a, b) == IF a > b THEN a ELSE b

\* bitwise operations on 16-bit words
RECURSIVE BitAnd(_, _, _)
BitAnd(a, b, n) ==
    IF n = 0 THEN 0
    ELSE (a % 2) * (b % 2) + 2 * BitAnd(a \div 2, b \div 2, n - 1)

\* a & b: an operand of 0 or 0xFFFF decides the result at once
And16(a, b) ==
    IF a = 0 \/ b = 0 THEN 0
    ELSE IF a = 65535 THEN b
    ELSE IF b = 65535 THEN a
    ELSE BitAnd(a, b, 16)
Not16(a) == 65535 - a
Or16(a, b) == a + b - And16(a, b)
Xor16(a, b) == a + b - 2 * And16(a, b)
AndNot16(a, b) == And16(Not16(a), b)

-----------------------------------------------------------------------------
(* VectorReg and its views *)

ZeroReg == [j \in 0..7 |-> 0]

\* self.0[k], k in 0..15
StorageByte(r, k) == IF k % 2 = 0 THEN r[k \div 2] % 256 ELSE r[k \div 2] \div 256

byte(r, idx) == StorageByte(r, 15 - idx)
setbyte(r, idx, val) ==
    [r EXCEPT ![(15 - idx) \div 2] =
        IF (15 - idx) % 2 = 0 THEN (@ \div 256) * 256 + val ELSE val * 256 + (@ % 256)]

\* LittleEndian::read_u16(&self.0[(7 - idx) * 2..])
lane(r, idx) == r[7 - idx]
setlane(r, idx, val) == [r EXCEPT ![7 - idx] = val]

\* LittleEndian::read_u128 of the storage: storage byte 15 is most significant
u128(r) == [i \in 0..15 |-> StorageByte(r, 15 - i)]
setu128(val) == [j \in 0..7 |-> val[15 - 2 * j] + 256 * val[14 - 2 * j]]

\* _mm_loadu_si128 / _mm_store_si128 of the storage: the 8 words as they are
m128(r) == [j \in 0..7 |-> r[j]]
setm128(val) == [j \in 0..7 |-> val[j]]

\* a register from its 8 architectural lanes, lane 0 first
RegOfLanes(ls) == [j \in 0..7 |-> ls[8 - j]]

-----------------------------------------------------------------------------
(* SSE2 / SSSE3 intrinsics on 8 x 16-bit words *)

vzero == [j \in 0..7 |-> 0]
vones == [j \in 0..7 |-> 65535]

SatS16(x) == IF x > 32767 THEN 32767 ELSE IF x < -32768 THEN -32768 ELSE x
SatU16(x) == IF x > 65535 THEN 65535 ELSE IF x < 0 THEN 0 ELSE x

mm_add_epi16(a, b) == [j \in 0..7 |-> (a[j] + b[j]) % W16]
mm_sub_epi16(a, b) == [j \in 0..7 |-> (a[j] - b[j]) % W16]
mm_adds_epi16(a, b) == [j \in 0..7 |-> U16(SatS16(S16(a[j]) + S16(b[j])))]
mm_subs_epi16(a, b) == [j \in 0..7 |-> U16(SatS16(S16(a[j]) - S16(b[j])))]
mm_adds_epu16(a, b) == [j \in 0..7 |-> SatU16(a[j] + b[j])]
mm_min_epi16(a, b) == [j \in 0..7 |-> IF S16(a[j]) < S16(b[j]) THEN a[j] ELSE b[j]]
mm_max_epi16(a, b) == [j \in 0..7 |-> IF S16(a[j]) > S16(b[j]) THEN a[j] ELSE b[j]]
mm_cmpgt_epi16(a, b) == [j \in 0..7 |-> IF S16(a[j]) > S16(b[j]) THEN 65535 ELSE 0]
mm_cmpeq_epi16(a, b) == [j \in 0..7 |-> IF a[j] = b[j] THEN 65535 ELSE 0]
mm_and_si128(a, b) == [j \in 0..7 |-> And16(a[j], b[j])]
mm_andnot_si128(a, b) == [j \in 0..7 |-> AndNot16(a[j], b[j])]
mm_or_si128(a, b) == [j \in 0..7 |-> Or16(a[j], b[j])]
mm_xor_si128(a, b) == [j \in 0..7 |-> Xor16(a[j], b[j])]
mm_set1_epi16(x) == [j \in 0..7 |-> x]
\* _mm_sign_epi16(a, b): a negated where b < 0, zero where b = 0
mm_sign_epi16(a, b) == [j \in 0..7 |->
    IF S16(b[j]) < 0 THEN U16(0 - a[j]) ELSE IF b[j] = 0 THEN 0 ELSE a[j]]
\* words 0..3 shuffled by the four 2-bit fields of imm, words 4..7 copied
mm_shufflelo_epi16(a, imm) == [j \in 0..7 |->
    IF j < 4 THEN a[(imm \div Pow2(2 * j)) % 4] ELSE a[j]]
\* words 4..7 shuffled within the high half, words 0..3 copied
mm_shufflehi_epi16(a, imm) == [j \in 0..7 |->
    IF j >= 4 THEN a[4 + ((imm \div Pow2(2 * (j - 4))) % 4)] ELSE a[j]]

-----------------------------------------------------------------------------
(* u128 values (16 bytes, byte 0 most significant) and DMEM slices *)

U128Zero == [i \in 0..15 |-> 0]

\* v << bits, bits a multiple of 8 below 128
Shl128(v, bits) == [i \in 0..15 |-> IF i + bits \div 8 <= 15 THEN v[i + bits \div 8] ELSE 0]
\* v >> bits
Shr128(v, bits) == [i \in 0..15 |-> IF i - bits \div 8 >= 0 THEN v[i - bits \div 8] ELSE 0]
\* u128::rotate_left / rotate_right: the amount is taken modulo 128
RotL128(v, bits) == [i \in 0..15 |-> v[(i + bits \div 8) % 16]]
RotR128(v, bits) == [i \in 0..15 |-> v[(i - bits \div 8) % 16]]
\* (d & !mask) | (src & mask) for a mask made of whole bytes
Merge128(d, src, mask) == [i \in 0..15 |-> IF mask[i] = 255 THEN src[i] ELSE d[i]]
\* !0u128
Ones128 == [i \in 0..15 |-> 255]

\* the image of DMEM the scratchpad owner presents; the mirror bytes are 0
DmemImage(a) == IF a < DMEM_SIZE THEN (a * 7 + 3) % 256 ELSE 0

\* dmem[a]
DmemAt(mem, a) == IF a \in DOMAIN mem THEN mem[a] ELSE DmemImage(a)

\* dmem[a] = v
Poke(mem, a, v) == [x \in DOMAIN mem \cup {a} |-> IF x = a THEN v ELSE mem[x]]

\* BigEndian::read_u128(&mem[at..at + 16])
ReadBE128(mem, at) == [i \in 0..15 |-> DmemAt(mem, at + i)]

\* BigEndian::write_u128(&mut mem[at..at + 16], v)
WriteBE128(mem, at, v) ==
    [x \in DOMAIN mem \cup (at..(at + 15)) |->
        IF x >= at /\ x <= at + 15 THEN v[x - at] ELSE mem[x]]

\* write_partial_left::<BigEndian> on the 16 bytes of memory at `at`
write_partial_left_BE(mem, at, src, skip_bits) ==
    LET mask == IF skip_bits < 128 THEN Shl128(Ones128, skip_bits) ELSE U128Zero
        s == IF skip_bits < 128 THEN Shl128(src, skip_bits) ELSE U128Zero
    IN  WriteBE128(mem, at, Merge128(ReadBE128(mem, at), s, mask))

\* write_partial_right rotating the source and the mask instead of shifting
partial_right_rotating(d, src, skip_bits, nbits) ==
    LET mask0 == Shl128(Ones128, 128 - nbits)
    IN  Merge128(d, RotR128(src, skip_bits % 128), RotR128(mask0, skip_bits % 128))

\* the mask and the merge of write_partial_right, on a u128 destination
partial_right(d, src, skip_bits, nbits) ==
    LET mask0 == Shl128(Ones128, 128 - nbits)
        mask == IF skip_bits < 128 THEN Shr128(mask0, skip_bits) ELSE U128Zero
        s == IF skip_bits < 128 THEN Shr128(src, skip_bits) ELSE U128Zero
    IN  Merge128(d, s, mask)

\* write_partial_right::<LittleEndian> on the storage of a register
write_partial_right_LE(reg, src, skip_bits, nbits) ==
    setu128(partial_right(u128(reg), src, skip_bits, nbits))

\* write_partial_right::<BigEndian> on the 16 bytes of memory at `at`
write_partial_right_BE(mem, at, src, skip_bits, nbits) ==
    WriteBE128(mem, at, partial_right(ReadBE128(mem, at), src, skip_bits, nbits))

-----------------------------------------------------------------------------
(* u32 and u64 values *)

U32Zero == [hi |-> 0, lo |-> 0]
\* u16 as u32 (zero extension) and u16.sx32() (sign extension)
Zx32(x) == [hi |-> 0, lo |-> x]
Sx32(x) == [hi |-> IF x >= 32768 THEN 65535 ELSE 0, lo |-> x]
Or32(a, b) == [hi |-> Or16(a.hi, b.hi), lo |-> Or16(a.lo, b.lo)]
\* (x as u32) << 16
Shl16_32(x) == [hi |-> x, lo |-> 0]

U64Zero == [i \in 0..3 |-> 0]
\* u16.sx64() and u8 as u64
Sx64(x) == [i \in 0..3 |-> IF i = 0 THEN x ELSE IF x >= 32768 THEN 65535 ELSE 0]
Zx64(x) == [i \in 0..3 |-> IF i = 0 THEN x ELSE 0]

-----------------------------------------------------------------------------
(* SpCop2Context *)

NoDivIn == [some |-> FALSE, val |-> U32Zero]
SomeDivIn(v) == [some |-> TRUE, val |-> v]

\* SpCop2Context::default(): the zeroed reset context
ZeroContext ==
    [vregs |-> [i \in 0..31 |-> ZeroReg],
     accum |-> [i \in 0..2 |-> ZeroReg],
     vco_carry |-> ZeroReg,
     vco_ne |-> ZeroReg,
     vce |-> ZeroReg,
     vcc_normal |-> ZeroReg,
     vcc_clip |-> ZeroReg,
     div_in |-> NoDivIn,
     div_out |-> U32Zero]

RECURSIVE PackBits(_, _)
\* sum over lanes i < n of (lane(r, i) & 1) << i
PackBits(r, n) == IF n = 0 THEN 0 ELSE PackBits(r, n - 1) + (lane(r, n - 1) % 2) * Pow2(n - 1)

\* every lane i set to 0xFFFF when bit i + from of v is set, and to 0 otherwise
Explode(v, from) == RegOfLanes([i \in 1..8 |-> IF Bit(v, i - 1 + from) # 0 THEN 65535 ELSE 0])

vce(c) == PackBits(c.vce, 8)
set_vce(c, v) == [c EXCEPT !.vce = Explode(v, 0)]

\* vcc packing the clip bits one position too low
vcc_clip_shifted(c) == PackBits(c.vcc_normal, 8) + 128 * PackBits(c.vcc_clip, 8)

vcc(c) == PackBits(c.vcc_normal, 8) + 256 * PackBits(c.vcc_clip, 8)
set_vcc(c, v) == [c EXCEPT !.vcc_normal = Explode(v, 0), !.vcc_clip = Explode(v, 8)]

\* set_vco storing each bit itself in its lane instead of the lane mask
set_vco_bits(c, v) ==
    [c EXCEPT !.vco_carry = RegOfLanes([i \in 1..8 |-> Bit(v, i - 1)]),
              !.vco_ne = RegOfLanes([i \in 1..8 |-> Bit(v, i + 7)])]

vco(c) == PackBits(c.vco_carry, 8) + 256 * PackBits(c.vco_ne, 8)
set_vco(c, v) == [c EXCEPT !.vco_carry = Explode(v, 0), !.vco_ne = Explode(v, 8)]

-----------------------------------------------------------------------------
(* Vectorop: operand access of a decoded opcode *)

vs(c, rs) == m128(c.vregs[rs])
vt(c, rt) == m128(c.vregs[rt])

\* the shuffle immediates with those of e = 2 and e = 3 exchanged
ShuffleImm_exchanged(e) ==
    CASE e = 2 -> 160 [] e = 3 -> 245 [] e = 4 -> 255
      [] e = 5 -> 170 [] e = 6 -> 85 [] e = 7 -> 0

\* 0b11_11_01_01 = 245, 0b10_10_00_00 = 160, 0b11_11_11_11 = 255,
\* 0b10_10_10_10 = 170, 0b01_01_01_01 = 85, 0b00_00_00_00 = 0
ShuffleImm(e) ==
    CASE e = 2 -> 245 [] e = 3 -> 160 [] e = 4 -> 255
      [] e = 5 -> 170 [] e = 6 -> 85 [] e = 7 -> 0

vte(c, rt, e) ==
    LET v == c.vregs[rt]
    IN  IF e <= 1 THEN m128(v)
        ELSE IF e <= 7
             THEN mm_shufflehi_epi16(mm_shufflelo_epi16(m128(v), ShuffleImm(e)), ShuffleImm(e))
             ELSE mm_set1_epi16(lane(v, e - 8))

setvd(c, rd, val) == [c EXCEPT !.vregs[rd] = setm128(val)]
accum(c, idx) == m128(c.accum[idx])
setaccum(c, idx, val) == [c EXCEPT !.accum[idx] = setm128(val)]
carry(c) == m128(c.vco_carry)
setcarry(c, val) == [c EXCEPT !.vco_carry = setm128(val)]
ne(c) == m128(c.vco_ne)
setne(c, val) == [c EXCEPT !.vco_ne = setm128(val)]
vce128(c) == m128(c.vce)
setvce(c, val) == [c EXCEPT !.vce = setm128(val)]
vccnormal(c) == m128(c.vcc_normal)
setvccnormal(c, val) == [c EXCEPT !.vcc_normal = setm128(val)]
vccclip(c) == m128(c.vcc_clip)
setvccclip(c, val) == [c EXCEPT !.vcc_clip = setm128(val)]
vt_lane(c, rt, idx) == lane(c.vregs[rt], idx)
setvd_lane(c, rd, idx, val) == [c EXCEPT !.vregs[rd] = setlane(@, idx, val)]
vs_byte(c, rs, idx) == byte(c.vregs[rs], idx)
setvs_byte(c, rs, idx, val) == [c EXCEPT !.vregs[rs] = setbyte(@, idx, val)]

-----------------------------------------------------------------------------
(* vrcp: the reciprocal and reciprocal-square-root kernels.  The module is  *)
(* not among the source files; it is modelled from the procedure the        *)
(* specification gives (section 4.H).  The contents of the two 512-entry    *)
(* ROMs are given nowhere: RcpRom follows the known generating rule of the  *)
(* reciprocal ROM and RsqRom is a fixed placeholder table.                  *)

\* i32 value of a u32, and the u32 of an integer in i32 range
S32(v) == IF v.hi >= 32768 THEN (v.hi - W16) * W16 + v.lo ELSE v.hi * W16 + v.lo
ToU32(n) == [hi |-> (n \div W16) % W16, lo |-> n % W16]

RECURSIVE BitLen(_)
BitLen(n) == IF n = 0 THEN 0 ELSE 1 + BitLen(n \div 2)

\* floor(2^34 / (i + 512)), computed without leaving 32 bits
RcpQuot(i) ==
    LET a == i + 512
        q == 1073741824 \div a
        r == 1073741824 % a
    IN  16 * q + (16 * r) \div a

RcpRom(i) == IF i = 0 THEN 65535 ELSE ((RcpQuot(i) + 1) \div 256) % W16
RsqRom(i) == 65535 - 83 * i

\* steps 1 to 3 of the procedure: |x| (one less for x <= -32768)
RcpData(xs) == IF xs >= 0 THEN xs ELSE IF xs > -32768 THEN 0 - xs ELSE 0 - (xs + 1)

\* ((data << shift) >> 22) & 0x3FF: the 10 leading bits of data
Top10(data) ==
    LET n == BitLen(data)
    IN  IF n >= 10 THEN data \div Pow2(n - 10) ELSE data * Pow2(10 - n)

vrcp(x) ==
    LET xs == S32(x)
        data == RcpData(xs)
        shift == 32 - BitLen(data)
        index == Top10(data) % 512
        res == ((W16 + RcpRom(index)) * 16384) \div Pow2(31 - shift)
    IN  IF data = 0 THEN [hi |-> 32767, lo |-> 65535]
        ELSE IF xs = -32768 THEN [hi |-> 65535, lo |-> 0]
        ELSE IF xs < 0 THEN ToU32(0 - res) ELSE ToU32(res)

vrsq(x) ==
    LET xs == S32(x)
        data == RcpData(xs)
        shift == 32 - BitLen(data)
        index == ((Top10(data) % 512) \div 2) * 2 + (shift % 2)
        res == ((W16 + RsqRom(index)) * 16384) \div Pow2((31 - shift) \div 2)
    IN  IF data = 0 THEN [hi |-> 32767, lo |-> 65535]
        ELSE IF xs = -32768 THEN [hi |-> 65535, lo |-> 0]
        ELSE IF xs < 0 THEN ToU32(0 - res) ELSE ToU32(res)

-----------------------------------------------------------------------------
(* vclip: the clip kernels VCH, VCR, VCL.  The module is not among the      *)
(* source files; it is modelled from section 4.G of the specification and   *)
(* the hardware truth table it refers to.  Every kernel returns the record  *)
(* [res, carry, ne, le, ge, vce] of 8-word vectors.                         *)

Mask(b) == IF b THEN 65535 ELSE 0

ClipOut(f) ==
    [res |-> [j \in 0..7 |-> f[j].res],
     carry |-> [j \in 0..7 |-> Mask(f[j].carry)],
     ne |-> [j \in 0..7 |-> Mask(f[j].ne)],
     le |-> [j \in 0..7 |-> Mask(f[j].le)],
     ge |-> [j \in 0..7 |-> Mask(f[j].ge)],
     vce |-> [j \in 0..7 |-> Mask(f[j].vce)]]

vch_lane(a, b) ==
    LET s == S16(a)
        t == S16(b)
    IN  IF (s < 0) # (t < 0)
        THEN [res |-> IF s + t <= 0 THEN U16(0 - t) ELSE a,
              carry |-> TRUE,
              ne |-> (s + t # 0) /\ (s + t # -1),
              le |-> s + t <= 0,
              ge |-> t < 0,
              vce |-> s + t = -1]
        ELSE [res |-> IF s - t >= 0 THEN b ELSE a,
              carry |-> FALSE,
              ne |-> s # t,
              le |-> t < 0,
              ge |-> s - t >= 0,
              vce |-> FALSE]

vch(va, vb) ==
    LET f == [j \in 0..7 |-> vch_lane(va[j], vb[j])]
    IN  ClipOut(f)

vcr_lane(a, b) ==
    LET s == S16(a)
        t == S16(b)
    IN  IF (s < 0) # (t < 0)
        THEN [res |-> IF s + t + 1 <= 0 THEN Not16(b) ELSE a,
              carry |-> FALSE, ne |-> FALSE,
              le |-> s + t + 1 <= 0,
              ge |-> t < 0,
              vce |-> FALSE]
        ELSE [res |-> IF s - t >= 0 THEN b ELSE a,
              carry |-> FALSE, ne |-> FALSE,
              le |-> t < 0,
              ge |-> s - t >= 0,
              vce |-> FALSE]

vcr(va, vb) ==
    LET f == [j \in 0..7 |-> vcr_lane(va[j], vb[j])]
    IN  ClipOut(f)

\* the flags come in as booleans (lane # 0) and leave carry, ne and vce clear
vcl_lane(a, b, cy, nz, le, ge, ce) ==
    LET le2 == IF cy /\ ~nz
               THEN (IF ce THEN a + b <= W16 ELSE a + b = 0)
               ELSE le
        ge2 == IF ~cy /\ ~nz THEN a - b >= 0 ELSE ge
    IN  [res |-> IF cy THEN (IF le2 THEN U16(0 - b) ELSE a)
                 ELSE (IF ge2 THEN b ELSE a),
         carry |-> FALSE, ne |-> FALSE, le |-> le2, ge |-> ge2, vce |-> FALSE]

vcl(va, vb, vcarry, vne, vle, vge, vvce) ==
    LET f == [j \in 0..7 |-> vcl_lane(va[j], vb[j], vcarry[j] # 0, vne[j] # 0, vle[j] # 0,
                         vge[j] # 0, vvce[j] # 0)]
    IN  ClipOut(f)

-----------------------------------------------------------------------------
(* vmul: the multiply kernels.  The module is not among the source files;   *)
(* it is modelled from section 4.F of the specification.  One accumulator   *)
(* lane is the record [lo, md, hi] of its three 16-bit slices.              *)

\* 48-bit wrapping sum of two accumulator lanes
AccAdd(a, b) ==
    LET l == a.lo + b.lo
        m == a.md + b.md + l \div W16
        h == a.hi + b.hi + m \div W16
    IN  [lo |-> l % W16, md |-> m % W16, hi |-> h % W16]

\* an integer of i32 range sign-extended to 48 bits
SProd(p) == [lo |-> p % W16, md |-> (p \div W16) % W16, hi |-> IF p < 0 THEN 65535 ELSE 0]

\* the high 16 bits of the unsigned 32-bit product a * b
UMulHi(a, b) ==
    LET x == a * (b \div 256)
        y == a * (b % 256)
    IN  x \div 256 + ((x % 256) * 256 + y) \div W16

\* the signed value of the slices hi:md
AccHigh(a) == S32([hi |-> a.hi, lo |-> a.md])

ClampS(a) ==
    IF AccHigh(a) > 32767 THEN 32767 ELSE IF AccHigh(a) < -32768 THEN 32768 ELSE a.md
ClampU(a) ==
    IF a.hi >= 32768 THEN 0 ELSE IF AccHigh(a) > 32767 THEN 65535 ELSE a.md
ClampL(a) ==
    IF AccHigh(a) <= 32767 /\ AccHigh(a) >= -32768 THEN a.lo
    ELSE IF a.hi >= 32768 THEN 0 ELSE 65535

\* the product of one lane as a 48-bit value, per kernel
MulProduct(name, a, b) ==
    CASE name \in {"VMULF", "VMULU", "VMACF", "VMACU"} ->
            AccAdd(SProd(S16(a) * S16(b)), SProd(S16(a) * S16(b)))
      [] name \in {"VMUDL", "VMADL"} -> [lo |-> UMulHi(a, b), md |-> 0, hi |-> 0]
      [] name \in {"VMUDM", "VMADM"} -> SProd(S16(a) * b)
      [] name \in {"VMUDN", "VMADN"} -> SProd(a * S16(b))
      [] name \in {"VMUDH", "VMADH"} ->
            [lo |-> 0, md |-> (S16(a) * S16(b)) % W16,
             hi |-> ((S16(a) * S16(b)) \div W16) % W16]

MulAccum(name, a, b, old) ==
    CASE name \in {"VMULF", "VMULU"} ->
            AccAdd(MulProduct(name, a, b), [lo |-> 32768, md |-> 0, hi |-> 0])
      [] name \in {"VMUDL", "VMUDM", "VMUDN", "VMUDH"} -> MulProduct(name, a, b)
      [] OTHER -> AccAdd(old, MulProduct(name, a, b))

MulResult(name, a) ==
    CASE name \in {"VMULU", "VMACU"} -> ClampU(a)
      [] name \in {"VMUDL", "VMUDN", "VMADL", "VMADN"} -> ClampL(a)
      [] OTHER -> ClampS(a)

\* vmul::<name>(vs, vte, acc_lo, acc_md, acc_hi) -> (res, acc_lo, acc_md, acc_hi)
vmul(name, va, vb, alo, amd, ahi) ==
    LET acc(j) == MulAccum(name, va[j], vb[j], [lo |-> alo[j], md |-> amd[j], hi |-> ahi[j]])
    IN  [res |-> [j \in 0..7 |-> MulResult(name, acc(j))],
         lo |-> [j \in 0..7 |-> acc(j).lo],
         md |-> [j \in 0..7 |-> acc(j).md],
         hi |-> [j \in 0..7 |-> acc(j).hi]]

-----------------------------------------------------------------------------
(* SpCop2::uop, VU half (bit 25 of the opcode set): the context after each  *)
(* function code.  e, rt, rs, rd are the opcode's fields.                   *)

\* (vcc & a) | (!vcc & b)
Select(m, a, b) == mm_or_si128(mm_and_si128(m, a), mm_andnot_si128(m, b))

op_vmul(c, name, e, rt, rs, rd) ==
    LET r == vmul(name, vs(c, rs), vte(c, rt, e), accum(c, 0), accum(c, 1), accum(c, 2))
    IN  setaccum(setaccum(setaccum(setvd(c, rd, r.res), 0, r.lo), 1, r.md), 2, r.hi)

\* VADD saturating the sum of the operands before the carry is added
uop_VADD_carry_last(c, e, rt, rs, rd) ==
    LET a == m128(c.vregs[rs])
        b == vte(c, rt, e)
        cy == carry(c)
        c1 == setvd(c, rd, mm_subs_epi16(mm_adds_epi16(a, b), cy))
        c2 == setaccum(c1, 0, mm_sub_epi16(mm_add_epi16(a, b), cy))
    IN  setne(setcarry(c2, vzero), vzero)

uop_VADD(c, e, rt, rs, rd) ==
    LET a == vs(c, rs)
        b == vte(c, rt, e)
        cy == carry(c)
        min == mm_min_epi16(a, b)
        max == mm_max_epi16(a, b)
        c1 == setvd(c, rd, mm_adds_epi16(mm_subs_epi16(min, cy), max))
        c2 == setaccum(c1, 0, mm_sub_epi16(mm_add_epi16(a, b), cy))
    IN  setne(setcarry(c2, vzero), vzero)

\* VSUB without the adjustment for the overflow of vt + carry
uop_VSUB_unadjusted(c, e, rt, rs, rd) ==
    LET a == m128(c.vregs[rs])
        b == vte(c, rt, e)
        cy == carry(c)
        c1 == setvd(c, rd, mm_subs_epi16(a, mm_subs_epi16(b, cy)))
        c2 == setaccum(c1, 0, mm_sub_epi16(a, mm_sub_epi16(b, cy)))
    IN  setne(setcarry(c2, vzero), vzero)

uop_VSUB(c, e, rt, rs, rd) ==
    LET a == vs(c, rs)
        b == vte(c, rt, e)
        cy == carry(c)
        diff == mm_sub_epi16(b, cy)
        sdiff == mm_subs_epi16(b, cy)
        mask == mm_cmpgt_epi16(sdiff, diff)
        c1 == setvd(c, rd, mm_adds_epi16(mm_subs_epi16(a, sdiff), mask))
        c2 == setaccum(c1, 0, mm_sub_epi16(a, diff))
    IN  setne(setcarry(c2, vzero), vzero)

uop_VABS(c, e, rt, rs, rd) ==
    LET res == mm_sign_epi16(vte(c, rt, e), vs(c, rs))
    IN  setvd(setaccum(c, 0, res), rd, res)

\* VADDC with a saturating unsigned sum in place of the wrapping one
uop_VADDC_saturating(c, e, rt, rs, rd) ==
    LET a == m128(c.vregs[rs])
        b == vte(c, rt, e)
        res == mm_adds_epu16(a, b)
        c1 == setne(setaccum(setvd(c, rd, res), 0, res), vzero)
    IN  setcarry(c1, mm_xor_si128(vones, mm_cmpeq_epi16(mm_add_epi16(a, b), res)))

uop_VADDC(c, e, rt, rs, rd) ==
    LET a == vs(c, rs)
        b == vte(c, rt, e)
        res == mm_add_epi16(a, b)
        c1 == setne(setaccum(setvd(c, rd, res), 0, res), vzero)
    IN  setcarry(c1, mm_xor_si128(vones, mm_cmpeq_epi16(res, mm_adds_epu16(a, b))))

\* VSUBC taking the borrow from the signed comparison
uop_VSUBC_signed_borrow(c, e, rt, rs, rd) ==
    LET a == m128(c.vregs[rs])
        b == vte(c, rt, e)
        res == mm_sub_epi16(a, b)
        c1 == setaccum(setvd(c, rd, res), 0, res)
        c2 == setcarry(c1, mm_cmpgt_epi16(b, a))
    IN  setne(c2, mm_xor_si128(mm_cmpeq_epi16(a, b), vones))

uop_VSUBC(c, e, rt, rs, rd) ==
    LET a == vs(c, rs)
        b == vte(c, rt, e)
        res == mm_sub_epi16(a, b)
        mask == mm_set1_epi16(32768)
        c1 == setaccum(setvd(c, rd, res), 0, res)
        c2 == setcarry(c1, mm_cmpgt_epi16(mm_xor_si128(mask, b), mm_xor_si128(mask, a)))
    IN  setne(c2, mm_xor_si128(mm_cmpeq_epi16(a, b), vones))

\* VSUBB and VSUCB (undocumented) have the same body
uop_VSUBB(c, e, rt, rs, rd) ==
    setaccum(setvd(c, rd, vzero), 0, mm_add_epi16(vs(c, rs), vte(c, rt, e)))

uop_VSUCB(c, e, rt, rs, rd) ==
    setaccum(setvd(c, rd, vzero), 0, mm_add_epi16(vs(c, rs), vte(c, rt, e)))

\* VSAR with e in 0..=2 or 8..=10; every other e is unimplemented!()
VSAR_implemented(e) == e \in {0, 1, 2, 8, 9, 10}
\* VSAR reading slice e - 8 of the accumulator
uop_VSAR_in_order(c, e, rt, rs, rd) ==
    IF e <= 2 THEN setvd(c, rd, vzero) ELSE setvd(c, rd, accum(c, e - 8))

uop_VSAR(c, e, rt, rs, rd) ==
    IF e <= 2 THEN setvd(c, rd, vzero) ELSE setvd(c, rd, accum(c, 2 - (e - 8)))

\* the part VLT, VEQ, VNE and VGE share once vcc and res are known
CompareOut(c, rd, m, res) ==
    setne(setcarry(setvccclip(setvccnormal(setvd(setaccum(c, 0, res), rd, res), m),
                              vzero), vzero), vzero)

\* VLT without the term for equal lanes with carry and ne set
uop_VLT_strict(c, e, rt, rs, rd) ==
    LET a == m128(c.vregs[rs])
        b == vte(c, rt, e)
        m == mm_cmpgt_epi16(b, a)
    IN  CompareOut(c, rd, m, Select(m, a, b))

uop_VLT(c, e, rt, rs, rd) ==
    LET a == vs(c, rs)
        b == vte(c, rt, e)
        m == mm_or_si128(mm_cmpgt_epi16(b, a),
                mm_and_si128(ne(c), mm_and_si128(carry(c), mm_cmpeq_epi16(a, b))))
    IN  CompareOut(c, rd, m, Select(m, a, b))

\* VEQ comparing with the register vt as it is, without the element broadcast
uop_VEQ_unbroadcast(c, e, rt, rs, rd) ==
    LET a == m128(c.vregs[rs])
        b == m128(c.vregs[rt])
        m == mm_andnot_si128(ne(c), mm_cmpeq_epi16(a, b))
        res == mm_or_si128(mm_and_si128(m, a), mm_andnot_si128(m, b))
    IN  setne(setcarry(setvccclip(setvccnormal(setvd(setaccum(c, 0, res), rd, res), m),
                                  vzero), vzero), vzero)

uop_VEQ(c, e, rt, rs, rd) ==
    LET a == vs(c, rs)
        b == vte(c, rt, e)
        m == mm_andnot_si128(ne(c), mm_cmpeq_epi16(a, b))
    IN  CompareOut(c, rd, m, Select(m, a, b))

\* VNE compares with vte but selects from the un-broadcast op.vt()
uop_VNE(c, e, rt, rs, rd) ==
    LET a == vs(c, rs)
        b == vte(c, rt, e)
        m == mm_or_si128(mm_or_si128(mm_cmpgt_epi16(b, a), mm_cmpgt_epi16(a, b)),
                         mm_and_si128(ne(c), mm_cmpeq_epi16(a, b)))
    IN  CompareOut(c, rd, m, Select(m, vs(c, rs), vt(c, rt)))

uop_VGE(c, e, rt, rs, rd) ==
    LET a == vs(c, rs)
        b == vte(c, rt, e)
        m == mm_or_si128(mm_cmpgt_epi16(a, b),
                mm_andnot_si128(mm_and_si128(carry(c), ne(c)), mm_cmpeq_epi16(a, b)))
    IN  CompareOut(c, rd, m, Select(m, a, b))

\* VCL, VCH and VCR store the six outputs of their kernel
ClipStore(c, rd, k) ==
    setne(setcarry(setvce(setvccclip(setvccnormal(setaccum(setvd(c, rd, k.res), 0, k.res),
                                                  k.le), k.ge), k.vce), k.carry), k.ne)

uop_VCL(c, e, rt, rs, rd) ==
    ClipStore(c, rd, vcl(vs(c, rs), vte(c, rt, e), carry(c), ne(c), vccnormal(c),
                         vccclip(c), vce128(c)))

uop_VCH(c, e, rt, rs, rd) == ClipStore(c, rd, vch(vs(c, rs), vte(c, rt, e)))

uop_VCR(c, e, rt, rs, rd) == ClipStore(c, rd, vcr(vs(c, rs), vte(c, rt, e)))

uop_VMRG(c, e, rt, rs, rd) ==
    LET res == Select(vccnormal(c), vs(c, rs), vte(c, rt, e))
    IN  setcarry(setne(setaccum(setvd(c, rd, res), 0, res), vzero), vzero)

\* VAND, VNAND, VOR, VNOR, VXOR, VNXOR
LogicOut(c, rd, res) == setaccum(setvd(c, rd, res), 0, res)
uop_VAND(c, e, rt, rs, rd) == LogicOut(c, rd, mm_and_si128(vs(c, rs), vte(c, rt, e)))
uop_VNAND(c, e, rt, rs, rd) ==
    LogicOut(c, rd, mm_xor_si128(mm_and_si128(vs(c, rs), vte(c, rt, e)), vones))
uop_VOR(c, e, rt, rs, rd) == LogicOut(c, rd, mm_or_si128(vs(c, rs), vte(c, rt, e)))
uop_VNOR(c, e, rt, rs, rd) ==
    LogicOut(c, rd, mm_xor_si128(mm_or_si128(vs(c, rs), vte(c, rt, e)), vones))
uop_VXOR(c, e, rt, rs, rd) == LogicOut(c, rd, mm_xor_si128(vs(c, rs), vte(c, rt, e)))
uop_VNXOR(c, e, rt, rs, rd) ==
    LogicOut(c, rd, mm_xor_si128(mm_xor_si128(vs(c, rs), vte(c, rt, e)), vones))

\* the source lane of the reciprocal family and of VMOV's accumulator copy
DivSrc(c, e, rt) == vt_lane(c, rt, e % 8)

\* setvd_lane(rs & 7, res as u16); setaccum(0, vt()): vt is read after the lane
\* is written, so it sees the new lane when rd = rt
DivStore(c, rt, rs, rd, val) ==
    LET c1 == setvd_lane(c, rd, rs % 8, val)
    IN  setaccum(c1, 0, vt(c1, rt))

\* VRCP consuming the latch as VRCPL does
uop_VRCP_consuming(c, e, rt, rs, rd) ==
    LET res == vrcp(Sx32(vt_lane(c, rt, e % 8)))
        c1 == setvd_lane(c, rd, rs % 8, res.lo)
    IN  [setaccum(c1, 0, vt(c1, rt)) EXCEPT !.div_out = res, !.div_in = [some |-> FALSE, val |-> U32Zero]]

uop_VRCP(c, e, rt, rs, rd) ==
    LET res == vrcp(Sx32(DivSrc(c, e, rt)))
    IN  [DivStore(c, rt, rs, rd, res.lo) EXCEPT !.div_out = res]

\* the argument of VRCPL / VRSQL: (x as u32) | div_in, or x.sx32() when no
\* high half is latched
\* the argument of VRCPL / VRSQL ignoring the latched high half
DivArg_single(c, x) == Sx32(x)

DivArg(c, x) == IF c.div_in.some THEN Or32(Zx32(x), c.div_in.val) ELSE Sx32(x)

uop_VRCPL(c, e, rt, rs, rd) ==
    LET res == vrcp(DivArg(c, DivSrc(c, e, rt)))
    IN  [DivStore(c, rt, rs, rd, res.lo) EXCEPT !.div_out = res, !.div_in = NoDivIn]

uop_VRCPH(c, e, rt, rs, rd) ==
    LET x == DivSrc(c, e, rt)
    IN  [DivStore(c, rt, rs, rd, c.div_out.hi) EXCEPT !.div_in = SomeDivIn(Shl16_32(x))]

VMOV_se(e, rs) ==
    IF e <= 1 THEN rs % 8
    ELSE IF e <= 3 THEN (e % 2) + ((rs % 8) \div 2) * 2
    ELSE IF e <= 7 THEN (e % 4) + ((rs % 8) \div 4) * 4
    ELSE e % 8

uop_VMOV(c, e, rt, rs, rd) ==
    DivStore(c, rt, rs, rd, vt_lane(c, rt, VMOV_se(e, rs)))

uop_VRSQ(c, e, rt, rs, rd) ==
    LET res == vrsq(Sx32(DivSrc(c, e, rt)))
    IN  [DivStore(c, rt, rs, rd, res.lo) EXCEPT !.div_out = res]

\* VRSQL taking no notice of a high half latched by VRCPH or VRSQH
uop_VRSQL_unlatched(c, e, rt, rs, rd) ==
    LET res == vrsq(Sx32(DivSrc(c, e, rt)))
    IN  [DivStore(c, rt, rs, rd, res.lo) EXCEPT !.div_out = res, !.div_in = NoDivIn]

uop_VRSQL(c, e, rt, rs, rd) ==
    LET res == vrsq(DivArg(c, DivSrc(c, e, rt)))
    IN  [DivStore(c, rt, rs, rd, res.lo) EXCEPT !.div_out = res, !.div_in = NoDivIn]

\* VRSQH handing out the low half of div_out
uop_VRSQH_low_half(c, e, rt, rs, rd) ==
    LET x == DivSrc(c, e, rt)
    IN  [DivStore(c, rt, rs, rd, c.div_out.lo) EXCEPT !.div_in = SomeDivIn(Shl16_32(x))]

uop_VRSQH(c, e, rt, rs, rd) ==
    LET x == DivSrc(c, e, rt)
    IN  [DivStore(c, rt, rs, rd, c.div_out.hi) EXCEPT !.div_in = SomeDivIn(Shl16_32(x))]

-----------------------------------------------------------------------------
(* SpCop2::uop, COP2 move half (bit 25 clear): dispatch on e *)

\* MFC2: the new value of cpu.regs[rt]
uop_MFC2(c, rs, rd) ==
    LET b == rd \div 2
    IN  Sx64(vs_byte(c, rs, b) * 256 + vs_byte(c, rs, (b + 1) % 16))

\* CFC2 with rs in 0..2: the new value of cpu.regs[rt]; any other rs panics
CxC2_implemented(rs) == rs \in {0, 1, 2}
uop_CFC2(c, rs) ==
    IF rs = 0 THEN Sx64(vco(c)) ELSE IF rs = 1 THEN Sx64(vcc(c)) ELSE Zx64(vce(c))

\* MTC2 writing its second byte at (b + 1) mod 16, as MFC2 reads it
uop_MTC2_wrapping(c, rs, rd, val) ==
    LET b == rd \div 2
        c1 == setvs_byte(c, rs, b, val[0] \div 256)
    IN  setvs_byte(c1, rs, (b + 1) % 16, val[0] % 256)

\* MTC2: val is cpu.regs[rt]
uop_MTC2(c, rs, rd, val) ==
    LET b == rd \div 2
        c1 == setvs_byte(c, rs, b, val[0] \div 256)
    IN  IF b # 15 THEN setvs_byte(c1, rs, b + 1, val[0] % 256) ELSE c1

\* CTC2 with rs in 0..2: val is cpu.regs[rt]
uop_CTC2(c, rs, val) ==
    IF rs = 0 THEN set_vco(c, val[0])
    ELSE IF rs = 1 THEN set_vcc(c, val[0])
    ELSE set_vce(c, val[0] % 256)

-----------------------------------------------------------------------------
(* Cop::reg and Cop::set_reg.  The value is a u128 for every index.         *)

U128OfInt(n) == [i \in 0..15 |-> IF i = 15 THEN n % 256 ELSE IF i = 14 THEN n \div 256 ELSE 0]
\* val as u16
LowU16(val) == val[14] * 256 + val[15]

reg(c, idx) ==
    IF idx = REG_VCO THEN U128OfInt(vco(c))
    ELSE IF idx = REG_VCC THEN U128OfInt(vcc(c))
    ELSE IF idx = REG_VCE THEN U128OfInt(vce(c))
    ELSE IF idx = REG_ACCUM_LO THEN u128(c.accum[0])
    ELSE IF idx = REG_ACCUM_MD THEN u128(c.accum[1])
    ELSE IF idx = REG_ACCUM_HI THEN u128(c.accum[2])
    ELSE u128(c.vregs[idx])

set_reg(c, idx, val) ==
    IF idx = REG_VCO THEN set_vco(c, LowU16(val))
    ELSE IF idx = REG_VCC THEN set_vcc(c, LowU16(val))
    ELSE IF idx = REG_VCE THEN set_vce(c, val[15])
    ELSE IF idx = REG_ACCUM_LO THEN [c EXCEPT !.accum[0] = setu128(val)]
    ELSE IF idx = REG_ACCUM_MD THEN [c EXCEPT !.accum[1] = setu128(val)]
    ELSE IF idx = REG_ACCUM_HI THEN [c EXCEPT !.accum[2] = setu128(val)]
    ELSE [c EXCEPT !.vregs[idx] = setu128(val)]

-----------------------------------------------------------------------------
(* Effective addresses.  base is cpu.regs[..] and offset the sign-extended  *)
(* 7-bit immediate as an integer in -64..63.                                *)

\* ((base as u32) + (offset << log)) & 0xFFF
EA(base, offset, log) == (base[0] + offset * Pow2(log)) % DMEM_SIZE

\* whether the u32 addition base + (offset << log) overflows
EAOverflows(base, offset, log) ==
    IF offset >= 0
    THEN base[1] = 65535 /\ base[0] + offset * Pow2(log) >= W16
    ELSE base[1] > 0 \/ base[0] >= (0 - offset) * Pow2(log)

\* whether the usize subtraction (ea & 7) - element underflows
IdxUnderflows(base, offset, log, element) == element > (EA(base, offset, log) % 8)

-----------------------------------------------------------------------------
(* lxv and sxv: plain loads and stores of 2^log bytes *)

\* dmem[0x1000 + i] = dmem[i] for i in 0..16
Mirror(mem) == WriteBE128(mem, DMEM_SIZE, ReadBE128(mem, 0))

\* the new [reg, mem] after lxv::<T>(reg, element, dmem, base, offset)
lxv(r, element, mem, base, offset, log) ==
    LET size == Pow2(log)
        ea == EA(base, offset, log)
        mem1 == IF ea + size > DMEM_SIZE THEN Mirror(mem) ELSE mem
        \* mem64 << (128 - SIZE * 8): the bytes read, big endian, at the top
        val == [i \in 0..15 |-> IF i < size THEN DmemAt(mem1, ea + i) ELSE 0]
    IN  [reg |-> write_partial_right_LE(r, val, element * 8, size * 8), mem |-> mem1]

RECURSIVE WriteBytes(_, _, _, _, _)
\* mem[at + k] = v[from + k] for k in 0..n
WriteBytes(mem, at, v, from, n) ==
    IF n = 0 THEN mem
    ELSE WriteBytes(Poke(mem, at, v[from]), at + 1, v, from + 1, n - 1)

\* the new dmem after sxv::<T>(dmem, base, offset, reg, element)
sxv(mem, base, offset, r, element, log) ==
    LET size == Pow2(log)
        ea == EA(base, offset, log)
        val == Shr128(RotL128(u128(r), element * 8), 128 - size * 8)
    IN  WriteBytes(mem, ea, val, 16 - size, size)

-----------------------------------------------------------------------------
(* Cop::lwc: the new [vregs, mem] of each load sub-opcode.  v is ctx.vregs, *)
(* vtidx the register field, element the element field.                     *)

lwc_plain(v, mem, vtidx, element, base, offset, log) ==
    LET r == lxv(v[vtidx], element, mem, base, offset, log)
    IN  [vregs |-> [v EXCEPT ![vtidx] = r.reg], mem |-> r.mem]

lwc_LBV(v, mem, vtidx, element, base, offset) == lwc_plain(v, mem, vtidx, element, base, offset, 0)
lwc_LSV(v, mem, vtidx, element, base, offset) == lwc_plain(v, mem, vtidx, element, base, offset, 1)
lwc_LLV(v, mem, vtidx, element, base, offset) == lwc_plain(v, mem, vtidx, element, base, offset, 2)
lwc_LDV(v, mem, vtidx, element, base, offset) == lwc_plain(v, mem, vtidx, element, base, offset, 3)

lwc_LQV(v, mem, vtidx, element, base, offset) ==
    LET ea == EA(base, offset, 4)
        qw_start == ea - (ea % 16)
        ea_idx == ea % 16
        val == Shl128(ReadBE128(mem, qw_start), ea_idx * 8)
    IN  [vregs |-> [v EXCEPT ![vtidx] = write_partial_right_LE(@, val, element * 8, 128)],
         mem |-> mem]

lwc_LRV(v, mem, vtidx, element, base, offset) ==
    LET ea == EA(base, offset, 4)
        qw_start == ea - (ea % 16)
        ea_idx == ea % 16
        val == ReadBE128(mem, qw_start)
        sh == (16 - ea_idx) + element
    IN  [vregs |-> [v EXCEPT ![vtidx] = write_partial_right_LE(@, val, sh * 8, 128)],
         mem |-> mem]

\* LPV, LUV, LHV: 8 bytes, `stride` apart, each shifted left by `shl` into a lane
lwc_packed(v, mem, vtidx, element, base, offset, log, stride, shl) ==
    LET ea == EA(base, offset, log)
        qw_start == ea - (ea % 8)
        ea_idx == ((ea % 8) - element) % 16
        m(e) == DmemAt(mem, (qw_start + ((ea_idx + stride * e) % 16)) % DMEM_SIZE)
    IN  [vregs |-> [v EXCEPT ![vtidx] = RegOfLanes([i \in 1..8 |-> m(i - 1) * Pow2(shl)])],
         mem |-> mem]

lwc_LPV(v, mem, vtidx, element, base, offset) ==
    lwc_packed(v, mem, vtidx, element, base, offset, 3, 1, 8)
lwc_LUV(v, mem, vtidx, element, base, offset) ==
    lwc_packed(v, mem, vtidx, element, base, offset, 3, 1, 7)
lwc_LHV(v, mem, vtidx, element, base, offset) ==
    lwc_packed(v, mem, vtidx, element, base, offset, 4, 2, 7)

lwc_LFV(v, mem, vtidx, element, base, offset) ==
    LET ea == EA(base, offset, 4)
        qw_start == ea - (ea % 8)
        hi_idx == ((ea % 8) - element) % 16
        lo_idx == ((ea % 8) - element + 8) % 16
        \* word w of `new`, most significant first: 4 of high, then 4 of low
        word(w) == IF w < 4
                   THEN DmemAt(mem, (qw_start + ((hi_idx + 4 * w) % 16)) % DMEM_SIZE) * 128
                   ELSE DmemAt(mem, (qw_start + ((lo_idx + 4 * (w - 4)) % 16)) % DMEM_SIZE) * 128
        new == [i \in 0..15 |-> IF i % 2 = 0 THEN word(i \div 2) \div 256
                                ELSE word(i \div 2) % 256]
        mask == Shr128([i \in 0..15 |-> IF i < 8 THEN 255 ELSE 0], element * 8)
    IN  [vregs |-> [v EXCEPT ![vtidx] = setu128(Merge128(u128(@), new, mask))],
         mem |-> mem]

lwc_LTV(v, mem, vtidx, element, base, offset) ==
    LET ea == EA(base, offset, 4)
        qw_start == ea - (ea % 8)
        val0 == IF qw_start # 4088
                THEN ReadBE128(mem, qw_start)
                ELSE [i \in 0..15 |-> IF i < 8 THEN DmemAt(mem, 4088 + i) ELSE DmemAt(mem, i - 8)]
        vtbase == vtidx - (vtidx % 8)
        vtoff == element \div 2
        val == RotL128(val0, (element + ((ea % 16) - (ea % 8))) * 8)
        \* the lane index e at which the loop reaches register i of the group
        lane_of(i) == (i - vtbase - vtoff) % 8
    IN  [vregs |-> [i \in 0..31 |->
                      IF i >= vtbase /\ i < vtbase + 8
                      THEN setlane(v[i], lane_of(i),
                                   val[2 * lane_of(i)] * 256 + val[2 * lane_of(i) + 1])
                      ELSE v[i]],
         mem |-> mem]

-----------------------------------------------------------------------------
(* Cop::swc: the new dmem of each store sub-opcode.  r is ctx.vregs[vtidx]  *)
(* except for STV, which reads the whole register file.                     *)

swc_SBV(mem, r, element, base, offset) == sxv(mem, base, offset, r, element, 0)
swc_SSV(mem, r, element, base, offset) == sxv(mem, base, offset, r, element, 1)
swc_SLV(mem, r, element, base, offset) == sxv(mem, base, offset, r, element, 2)
swc_SDV(mem, r, element, base, offset) == sxv(mem, base, offset, r, element, 3)

\* SQV writing the register in little-endian byte order
swc_SQV_little_endian(mem, r, element, base, offset) ==
    LET ea == (base[0] + offset * 16) % DMEM_SIZE
        val == RotL128(u128(r), element * 8)
    IN  write_partial_right_BE(mem, ea - (ea % 16), [i \in 0..15 |-> val[15 - i]],
                               (ea % 16) * 8, 128)

swc_SQV(mem, r, element, base, offset) ==
    LET ea == EA(base, offset, 4)
        qw_start == ea - (ea % 16)
        ea_idx == ea % 16
    IN  write_partial_right_BE(mem, qw_start, RotL128(u128(r), element * 8), ea_idx * 8, 128)

\* SRV skipping ea_idx bytes, as SQV does, instead of 16 - ea_idx
swc_SRV_same_skip(mem, r, element, base, offset) ==
    LET ea == EA(base, offset, 4)
        qw_start == ea - (ea % 16)
        ea_idx == ea % 16
    IN  write_partial_left_BE(mem, qw_start, RotL128(u128(r), element * 8), ea_idx * 8)

swc_SRV(mem, r, element, base, offset) ==
    LET ea == EA(base, offset, 4)
        qw_start == ea - (ea % 16)
        ea_idx == ea % 16
    IN  write_partial_left_BE(mem, qw_start, RotL128(u128(r), element * 8), (16 - ea_idx) * 8)

\* memptr[e] = f(e) for e in 0..8, memptr = &mut dmem[ea..ea + 0x10]
Write8(mem, ea, f) ==
    [x \in DOMAIN mem \cup (ea..(ea + 7)) |->
        IF x >= ea /\ x <= ea + 7 THEN f[x - ea] ELSE mem[x]]

swc_SPV(mem, r, element, base, offset) ==
    LET ea == EA(base, offset, 3)
        eidx(e) == (e + element) % 16
        f == [e \in 0..7 |-> (((lane(r, eidx(e) % 8) * Pow2(eidx(e) \div 8)) % W16) \div 256) % 256]
    IN  Write8(mem, ea, f)

swc_SUV(mem, r, element, base, offset) ==
    LET ea == EA(base, offset, 3)
        eidx(e) == (e + element) % 16
        f == [e \in 0..7 |-> ((lane(r, eidx(e) % 8) \div Pow2(eidx(e) \div 8)) \div 128) % 256]
    IN  Write8(mem, ea, f)

RECURSIVE WriteAt(_, _, _, _, _, _, _)
\* memptr[(e * step + ea_idx) & 0xF] = f(e) for e in k..n, in that order
WriteAt(mem, qw_start, ea_idx, step, f, k, n) ==
    IF k = n THEN mem
    ELSE WriteAt(Poke(mem, qw_start + ((k * step + ea_idx) % 16), f[k]),
                 qw_start, ea_idx, step, f, k + 1, n)

swc_SHV(mem, r, element, base, offset) ==
    LET ea == EA(base, offset, 4)
        qw_start == ea - (ea % 8)
        ea_idx == ea % 8
        eidx(e) == (e * 2 + element) % 16
        f == [e \in 0..7 |-> ((byte(r, eidx(e)) * 256 + byte(r, (eidx(e) + 1) % 16)) \div 128) % 256]
    IN  WriteAt(mem, qw_start, ea_idx, 2, f, 0, 8)

\* the table LANES of SFV: the lane for element and e, -1 for "write zero"
SFV_LANES ==
    <<  <<0, 1, 2, 3>>, <<6, 7, 4, 5>>, <<-1, -1, -1, -1>>, <<-1, -1, -1, -1>>,
        <<1, 2, 3, 0>>, <<7, 4, 5, 6>>, <<-1, -1, -1, -1>>, <<-1, -1, -1, -1>>,
        <<4, 5, 6, 7>>, <<-1, -1, -1, -1>>, <<-1, -1, -1, -1>>, <<3, 0, 1, 2>>,
        <<5, 6, 7, 4>>, <<-1, -1, -1, -1>>, <<-1, -1, -1, -1>>, <<0, 1, 2, 3>> >>

swc_SFV(mem, r, element, base, offset) ==
    LET ea == EA(base, offset, 4)
        qw_start == ea - (ea % 8)
        ea_idx == ea % 8
        eidx(e) == SFV_LANES[element + 1][e + 1]
        f == [e \in 0..3 |-> ((IF eidx(e) < 0 THEN 0 ELSE lane(r, eidx(e))) \div 128) % 256]
    IN  WriteAt(mem, qw_start, ea_idx, 4, f, 0, 4)

swc_SWV(mem, r, element, base, offset) ==
    LET ea == EA(base, offset, 4)
        qw_start == ea - (ea % 8)
    IN  WriteBE128(mem, qw_start, RotL128(RotR128(u128(r), (ea % 8) * 8), element * 8))

\* STV taking all 8 lanes from the register vt instead of the diagonal
swc_STV_one_register(mem, v, vtidx, element, base, offset) ==
    LET ea == (base[0] + offset * 16) % DMEM_SIZE
        val == [i \in 0..15 |-> IF i % 2 = 0 THEN lane(v[vtidx], i \div 2) \div 256
                                ELSE lane(v[vtidx], i \div 2) % 256]
    IN  WriteBE128(mem, ea - (ea % 8), RotR128(val, (ea % 8) * 8))

swc_STV(mem, v, vtidx, element, base, offset) ==
    LET ea == EA(base, offset, 4)
        qw_start == ea - (ea % 8)
        vtbase == vtidx - (vtidx % 8)
        vtoff == element \div 2
        word(e) == lane(v[vtbase + ((vtoff + e) % 8)], e)
        val == [i \in 0..15 |-> IF i % 2 = 0 THEN word(i \div 2) \div 256
                                ELSE word(i \div 2) % 256]
    IN  WriteBE128(mem, qw_start, RotR128(val, (ea % 8) * 8))

-----------------------------------------------------------------------------
(* The state machine: one action per operation of the Cop interface.        *)

\* a call is made only while the process is alive and the run is in bounds
Ready == ret # "abort" /\ steps < MaxSteps

\* the effect of one call, and its record in the history
Call(name, args, x, c2, r2, m2, res) ==
    /\ ctx' = c2
    /\ regs' = r2
    /\ dmem' = m2
    /\ ret' = res
    /\ hist' = LET h == [name |-> name, args |-> args, x |-> x, ret |-> res,
                         ctx |-> ctx, dmem |-> dmem]
               IN  IF hist = <<>> THEN <<h>> ELSE <<h, hist[1]>>
    /\ steps' = steps + 1

\* a call that ends in panic!() or unimplemented!(): nothing is written
Abort(name, args) == Call(name, args, 0, ctx, regs, dmem, "abort")

\* a call that returns the tracer's error: "break" (break_here) or "panic"
Fail(name, args, res) == Call(name, args, 0, ctx, regs, dmem, res)

\* the match of uop over the function field, by the name of the function
uop(c, name, e, rt, rs, rd) ==
    CASE name = "VADD" -> uop_VADD(c, e, rt, rs, rd)
      [] name = "VSUB" -> uop_VSUB(c, e, rt, rs, rd)
      [] name = "VABS" -> uop_VABS(c, e, rt, rs, rd)
      [] name = "VADDC" -> uop_VADDC(c, e, rt, rs, rd)
      [] name = "VSUBC" -> uop_VSUBC(c, e, rt, rs, rd)
      [] name = "VSUBB" -> uop_VSUBB(c, e, rt, rs, rd)
      [] name = "VSUCB" -> uop_VSUCB(c, e, rt, rs, rd)
      [] name = "VSAR" -> uop_VSAR(c, e, rt, rs, rd)
      [] name = "VLT" -> uop_VLT(c, e, rt, rs, rd)
      [] name = "VEQ" -> uop_VEQ(c, e, rt, rs, rd)
      [] name = "VNE" -> uop_VNE(c, e, rt, rs, rd)
      [] name = "VGE" -> uop_VGE(c, e, rt, rs, rd)
      [] name = "VCL" -> uop_VCL(c, e, rt, rs, rd)
      [] name = "VCH" -> uop_VCH(c, e, rt, rs, rd)
      [] name = "VCR" -> uop_VCR(c, e, rt, rs, rd)
      [] name = "VMRG" -> uop_VMRG(c, e, rt, rs, rd)
      [] name = "VAND" -> uop_VAND(c, e, rt, rs, rd)
      [] name = "VNAND" -> uop_VNAND(c, e, rt, rs, rd)
      [] name = "VOR" -> uop_VOR(c, e, rt, rs, rd)
      [] name = "VNOR" -> uop_VNOR(c, e, rt, rs, rd)
      [] name = "VXOR" -> uop_VXOR(c, e, rt, rs, rd)
      [] name = "VNXOR" -> uop_VNXOR(c, e, rt, rs, rd)
      [] name = "VRCP" -> uop_VRCP(c, e, rt, rs, rd)
      [] name = "VRCPL" -> uop_VRCPL(c, e, rt, rs, rd)
      [] name = "VRCPH" -> uop_VRCPH(c, e, rt, rs, rd)
      [] name = "VMOV" -> uop_VMOV(c, e, rt, rs, rd)
      [] name = "VRSQ" -> uop_VRSQ(c, e, rt, rs, rd)
      [] name = "VRSQL" -> uop_VRSQL(c, e, rt, rs, rd)
      [] name = "VRSQH" -> uop_VRSQH(c, e, rt, rs, rd)
      [] name \in {"VNOP", "VNULL"} -> c
      [] OTHER -> op_vmul(c, name, e, rt, rs, rd)

VMUL_NAMES == {"VMULF", "VMULU", "VMUDL", "VMUDM", "VMUDN", "VMUDH",
               "VMACF", "VMACU", "VMADL", "VMADM", "VMADN", "VMADH"}
VU_NAMES ==
    VMUL_NAMES \cup
    {"VADD", "VSUB", "VABS", "VADDC", "VSUBC", "VSUBB", "VSUCB", "VSAR", "VLT", "VEQ",
     "VNE", "VGE", "VCL", "VCH", "VCR", "VMRG", "VAND", "VNAND", "VOR", "VNOR", "VXOR",
     "VNXOR", "VRCP", "VRCPL", "VRCPH", "VMOV", "VRSQ", "VRSQL", "VRSQH", "VNOP", "VNULL"}
DIV_NAMES == {"VRCP", "VRCPL", "VRCPH", "VRSQ", "VRSQL", "VRSQH"}

\* VSAR clearing vd before it looks at e
VU_clearing_first(name, e, rt, rs, rd) ==
    /\ Ready
    /\ IF name = "VSAR" /\ ~VSAR_implemented(e)
       THEN Call(name, <<e, rt, rs, rd>>, 0, setvd(ctx, rd, vzero), regs, dmem, "abort")
       ELSE Call(name, <<e, rt, rs, rd>>,
                 IF name \in DIV_NAMES THEN DivSrc(ctx, e, rt) ELSE 0,
                 uop(ctx, name, e, rt, rs, rd), regs, dmem, "ok")

\* one VU opcode (bit 25 of the opcode set).  The record keeps the source lane
\* value the reciprocal family reads.
VU(name, e, rt, rs, rd) ==
    /\ Ready
    /\ IF name = "VSAR" /\ ~VSAR_implemented(e)
       THEN Abort(name, <<e, rt, rs, rd>>)
       ELSE Call(name, <<e, rt, rs, rd>>,
                 IF name \in DIV_NAMES THEN DivSrc(ctx, e, rt) ELSE 0,
                 uop(ctx, name, e, rt, rs, rd), regs, dmem, "ok")

\* the function codes uop implements
VU_FUNCS ==
    (0..1) \cup (4..9) \cup (12..17) \cup {19, 20, 21, 23, 25, 29} \cup (32..45)
    \cup (48..55) \cup {63}

\* any other function code: panic!("unimplemented COP2 VU opcode")
VU_unimplemented(func) == Ready /\ func \notin VU_FUNCS /\ Abort("VU_unimplemented", <<func, 0, 0, 0>>)

MFC2(rt, rs, rd) ==
    Ready /\ Call("MFC2", <<0, rt, rs, rd>>, 0, ctx,
                  [regs EXCEPT ![rt] = uop_MFC2(ctx, rs, rd)], dmem, "ok")

CFC2(rt, rs, rd) ==
    /\ Ready
    /\ IF CxC2_implemented(rs)
       THEN Call("CFC2", <<2, rt, rs, rd>>, 0, ctx,
                 [regs EXCEPT ![rt] = uop_CFC2(ctx, rs)], dmem, "ok")
       ELSE Abort("CFC2", <<2, rt, rs, rd>>)

MTC2(rt, rs, rd) ==
    Ready /\ Call("MTC2", <<4, rt, rs, rd>>, 0, uop_MTC2(ctx, rs, rd, regs[rt]), regs, dmem, "ok")

CTC2(rt, rs, rd) ==
    /\ Ready
    /\ IF CxC2_implemented(rs)
       THEN Call("CTC2", <<6, rt, rs, rd>>, 0, uop_CTC2(ctx, rs, regs[rt]), regs, dmem, "ok")
       ELSE Abort("CTC2", <<6, rt, rs, rd>>)

\* any other e of a COP2 move: t.break_here(...)
COP2_unimplemented(e, rt, rs, rd) ==
    Ready /\ e \notin {0, 2, 4, 6} /\ Fail("COP2_unimplemented", <<e, rt, rs, rd>>, "break")

SetReg(idx, val) ==
    Ready /\ Call("set_reg", <<idx, 0, 0, 0>>, 0, set_reg(ctx, idx, val), regs, dmem, "ok")

\* the match of lwc over the sub-opcode, by the name of the load
lwc(v, mem, name, vtidx, element, base, offset) ==
    CASE name = "LBV" -> lwc_LBV(v, mem, vtidx, element, base, offset)
      [] name = "LSV" -> lwc_LSV(v, mem, vtidx, element, base, offset)
      [] name = "LLV" -> lwc_LLV(v, mem, vtidx, element, base, offset)
      [] name = "LDV" -> lwc_LDV(v, mem, vtidx, element, base, offset)
      [] name = "LQV" -> lwc_LQV(v, mem, vtidx, element, base, offset)
      [] name = "LRV" -> lwc_LRV(v, mem, vtidx, element, base, offset)
      [] name = "LPV" -> lwc_LPV(v, mem, vtidx, element, base, offset)
      [] name = "LUV" -> lwc_LUV(v, mem, vtidx, element, base, offset)
      [] name = "LHV" -> lwc_LHV(v, mem, vtidx, element, base, offset)
      [] name = "LFV" -> lwc_LFV(v, mem, vtidx, element, base, offset)
      [] name = "LTV" -> lwc_LTV(v, mem, vtidx, element, base, offset)

LWC_NAMES == {"LBV", "LSV", "LLV", "LDV", "LQV", "LRV", "LPV", "LUV", "LHV", "LFV", "LTV"}

\* the shift of the offset: 0 for LBV/SBV, 1 for LSV/SSV, 2 for LLV/SLV,
\* 3 for LDV/SDV and the packed LPV/LUV/SPV/SUV, 4 for every other one
OffsetShift(name) ==
    CASE name \in {"LBV", "SBV"} -> 0
      [] name \in {"LSV", "SSV"} -> 1
      [] name \in {"LLV", "SLV"} -> 2
      [] name \in {"LDV", "SDV", "LPV", "LUV", "SPV", "SUV"} -> 3
      [] OTHER -> 4

\* one vector load: base is the index of the scalar base register.  The
\* address arithmetic wraps in a build without overflow checks; in a build
\* with them an overflow panics before anything is written.
LWC(name, vtidx, element, base, offset) ==
    /\ Ready
    /\ \/ LET r == lwc(ctx.vregs, dmem, name, vtidx, element, regs[base], offset)
          IN  Call(name, <<vtidx, element, base, offset>>,
                   EA(regs[base], offset, OffsetShift(name)),
                   [ctx EXCEPT !.vregs = r.vregs], regs, r.mem, "ok")
       \/ /\ \/ EAOverflows(regs[base], offset, OffsetShift(name))
             \/ /\ name \in {"LPV", "LUV", "LHV", "LFV"}
                /\ IdxUnderflows(regs[base], offset, OffsetShift(name), element)
          /\ Abort(name, <<vtidx, element, base, offset>>)

\* the load sub-opcodes lwc implements
LWC_OPS == (0..9) \cup {11}

\* any other sub-opcode: t.panic("unimplemented VU load opcode")
lwc_unimplemented(op, vtidx, element, base, offset) ==
    Ready /\ op \notin LWC_OPS /\ Fail("lwc_unimplemented", <<op, vtidx, element, base>>, "panic")

\* the match of swc over the sub-opcode, by the name of the store
swc(mem, v, name, vtidx, element, base, offset) ==
    CASE name = "SBV" -> swc_SBV(mem, v[vtidx], element, base, offset)
      [] name = "SSV" -> swc_SSV(mem, v[vtidx], element, base, offset)
      [] name = "SLV" -> swc_SLV(mem, v[vtidx], element, base, offset)
      [] name = "SDV" -> swc_SDV(mem, v[vtidx], element, base, offset)
      [] name = "SQV" -> swc_SQV(mem, v[vtidx], element, base, offset)
      [] name = "SRV" -> swc_SRV(mem, v[vtidx], element, base, offset)
      [] name = "SPV" -> swc_SPV(mem, v[vtidx], element, base, offset)
      [] name = "SUV" -> swc_SUV(mem, v[vtidx], element, base, offset)
      [] name = "SHV" -> swc_SHV(mem, v[vtidx], element, base, offset)
      [] name = "SFV" -> swc_SFV(mem, v[vtidx], element, base, offset)
      [] name = "SWV" -> swc_SWV(mem, v[vtidx], element, base, offset)
      [] name = "STV" -> swc_STV(mem, v, vtidx, element, base, offset)

SWC_NAMES == {"SBV", "SSV", "SLV", "SDV", "SQV", "SRV", "SPV", "SUV", "SHV", "SFV", "SWV", "STV"}

\* one vector store
SWC(name, vtidx, element, base, offset) ==
    /\ Ready
    /\ \/ Call(name, <<vtidx, element, base, offset>>,
               EA(regs[base], offset, OffsetShift(name)),
               ctx, regs, swc(dmem, ctx.vregs, name, vtidx, element, regs[base], offset), "ok")
       \/ /\ EAOverflows(regs[base], offset, OffsetShift(name))
          /\ Abort(name, <<vtidx, element, base, offset>>)

\* the store sub-opcodes swc implements
SWC_OPS == 0..11

\* any other sub-opcode: t.panic("unimplemented VU store opcode")
swc_unimplemented(op, vtidx, element, base, offset) ==
    Ready /\ op \notin SWC_OPS /\ Fail("swc_unimplemented", <<op, vtidx, element, base>>, "panic")

-----------------------------------------------------------------------------
(* The general specification: from the reset context, any call.             *)

\* a scalar register from its four 16-bit limbs, most significant first
Reg64(w3, w2, w1, w0) == [i \in 0..3 |-> IF i = 0 THEN w0 ELSE IF i = 1 THEN w1
                                          ELSE IF i = 2 THEN w2 ELSE w3]

\* the scalar registers the host CPU presents: r1 = 0xFF8, r2 = 0x10,
\* r3 = 0xFFFF_FFFF_FFFF_85A3, r4 = 0x1_0FFD, r5 = 0xFF0, r6 = 0xFFC, every
\* other register 0
InitRegs == [i \in 0..31 |->
    CASE i = 1 -> Reg64(0, 0, 0, 4088)
      [] i = 2 -> Reg64(0, 0, 0, 16)
      [] i = 3 -> Reg64(65535, 65535, 65535, 34211)
      [] i = 4 -> Reg64(0, 0, 1, 4093)
      [] i = 5 -> Reg64(0, 0, 0, 4080)
      [] i = 6 -> Reg64(0, 0, 0, 4092)
      [] OTHER -> U64Zero]

\* no byte of DMEM written yet
InitDmem == <<>>

Init ==
    /\ ctx = ZeroContext
    /\ regs = InitRegs
    /\ dmem = InitDmem
    /\ ret = "ok"
    /\ hist = <<>>
    /\ steps = 0

\* the opcode fields <<e, rt, rs, rd>> the general specification draws
VUFields == {<<5, 1, 1, 2>>, <<10, 1, 2, 1>>}
\* the fields <<rt, rs, rd>> of the COP2 moves
MoveFields == {<<3, 1, 6>>, <<5, 2, 30>>, <<4, 3, 1>>}
\* the fields <<vt, element, base, offset>> of the loads and stores
MemFields == {<<1, 0, 2, 1>>, <<2, 3, 1, -1>>, <<9, 12, 4, 0>>}
\* the values set_reg is called with
SetRegVals == {
    [i \in 0..15 |-> 255],
    [i \in 0..15 |-> 17 * i],
    [i \in 0..15 |-> IF i % 4 = 0 THEN 128 ELSE IF i % 4 = 2 THEN 127 ELSE IF i % 4 = 3 THEN 255 ELSE 0] }
SetRegIdx == {1, 2, REG_VCO, REG_VCC, REG_VCE, REG_ACCUM_LO, REG_ACCUM_MD, REG_ACCUM_HI}

Next ==
    \/ \E name \in VU_NAMES, f \in VUFields : VU(name, f[1], f[2], f[3], f[4])
    \/ \E func \in {2, 62} : VU_unimplemented(func)
    \/ \E f \in MoveFields : MFC2(f[1], f[2], f[3])
    \/ \E f \in MoveFields : CFC2(f[1], f[2], f[3])
    \/ \E f \in MoveFields : MTC2(f[1], f[2], f[3])
    \/ \E f \in MoveFields : CTC2(f[1], f[2], f[3])
    \/ \E e \in {1, 15} : COP2_unimplemented(e, 1, 1, 1)
    \/ \E idx \in SetRegIdx, val \in SetRegVals : SetReg(idx, val)
    \/ \E name \in LWC_NAMES, f \in MemFields : LWC(name, f[1], f[2], f[3], f[4])
    \/ \E op \in {10, 12, 31} : lwc_unimplemented(op, 1, 0, 2, 0)
    \/ \E name \in SWC_NAMES, f \in MemFields : SWC(name, f[1], f[2], f[3], f[4])
    \/ \E op \in {12, 31} : swc_unimplemented(op, 1, 0, 2, 0)

Spec == Init /\ [][Next]_vars

-----------------------------------------------------------------------------
(* Flag registers                                                           *)

FlagRegs(c) == {c.vco_carry, c.vco_ne, c.vcc_normal, c.vcc_clip, c.vce}
IsMask(r) == \A j \in 0..7 : r[j] \in {0, 65535}
Mixed(r) == (\E j \in 0..7 : r[j] = 0) /\ (\E j \in 0..7 : r[j] = 65535)
\* the last n operations ran to completion
Executed(n) == Len(hist) >= n /\ \A k \in 1..n : hist[k].ret = "ok"

\* C1: in every state reachable from the reset context, every lane of
\* vco_carry, vco_ne, vcc_normal, vcc_clip and vce is 0x0000 or 0xFFFF.
C1_FlagLanesAreMasks == \A r \in FlagRegs(ctx) : IsMask(r)

\* two operations have run and left lanes of both kinds in the carry and in
\* the compare flags
C1_Witness ==
    /\ Executed(2)
    /\ Mixed(ctx.vco_carry)
    /\ Mixed(ctx.vcc_normal)

\* C2: in every reachable state, set_reg(idx, reg(idx)) leaves the context
\* unchanged for every idx in 0..37; in particular packing and re-exploding
\* VCO, VCC and VCE restores every flag lane.
C2_SetRegOfRegIsIdentity ==
    /\ \A idx \in 0..37 : set_reg(ctx, idx, reg(ctx, idx)) = ctx
    /\ set_vco(ctx, vco(ctx)) = ctx
    /\ set_vcc(ctx, vcc(ctx)) = ctx
    /\ set_vce(ctx, vce(ctx)) = ctx

\* a state with a vector register and the flags away from their reset values
C2_Witness ==
    /\ Executed(2)
    /\ \E i \in 0..31 : ctx.vregs[i] # ZeroReg
    /\ Mixed(ctx.vcc_clip) \/ Mixed(ctx.vco_ne) \/ Mixed(ctx.vce)

\* C3: a step changes div_in from empty to pending only when VRCPH or VRSQH
\* executes, from pending to empty only when VRCPL or VRSQL executes, and
\* every other operation leaves div_in as it was.
C3_DivInLatch ==
    [][hist' # <<>> =>
        LET op == hist'[1].name
        IN  /\ (~ctx.div_in.some /\ ctx'.div_in.some) => op \in {"VRCPH", "VRSQH"}
            /\ (ctx.div_in.some /\ ~ctx'.div_in.some) => op \in {"VRCPL", "VRSQL"}
            /\ op \notin {"VRCPH", "VRSQH", "VRCPL", "VRSQL"} => ctx'.div_in = ctx.div_in]_vars

\* the latch was set by VRCPH and then consumed by VRSQL
C3_Witness ==
    /\ Executed(2)
    /\ hist[2].name = "VRCPH" /\ ~hist[2].ctx.div_in.some
    /\ hist[1].name = "VRSQL" /\ hist[1].ctx.div_in.some
    /\ ~ctx.div_in.some

-----------------------------------------------------------------------------
(* The reciprocal family on given register contents                         *)

\* the contents of v1, the source register, lane 0 first
DivVectors == {
    <<0, 1, 32767, 32768, 65535, 4660, 2, 256>>,
    <<65534, 49152, 3, 1024, 16384, 32769, 255, 43690>> }

InitDiv ==
    /\ \E ls \in DivVectors : ctx = [ZeroContext EXCEPT !.vregs[1] = RegOfLanes(ls)]
    /\ regs = InitRegs
    /\ dmem = InitDmem
    /\ ret = "ok"
    /\ hist = <<>>
    /\ steps = 0

\* the fields <<rt, rs, rd>>: a destination apart from the source, and the
\* source register as its own destination
DivFields == {<<1, 3, 2>>, <<1, 6, 1>>}

NextDiv ==
    \E name \in DIV_NAMES \cup {"VMOV"}, e \in 0..7, f \in DivFields :
        VU(name, e, f[1], f[2], f[3])

SpecDiv == InitDiv /\ [][NextDiv]_vars

\* C4: VRCPH on source lane value x followed by VRCPL on source lane value y
\* leaves div_out = vrcp((x << 16) | y), the low 16 bits of it in the
\* destination lane, and the div_in latch empty.
C4_HighThenLow ==
    (Executed(2) /\ hist[2].name = "VRCPH" /\ hist[1].name = "VRCPL") =>
        LET x == hist[2].x
            y == hist[1].x
            res == vrcp(Or32(Shl16_32(x), Zx32(y)))
        IN  /\ ctx.div_out = res
            /\ lane(ctx.vregs[hist[1].args[4]], hist[1].args[3] % 8) = res.lo
            /\ ~ctx.div_in.some

\* the pair has run with a non-zero high half and a low half whose sign
\* extension would differ from its zero extension
C4_Witness ==
    /\ Executed(2) /\ hist[2].name = "VRCPH" /\ hist[1].name = "VRCPL"
    /\ hist[2].x \notin {0, 65535}
    /\ hist[1].x >= 32768
    /\ ctx.div_out.lo # 0

-----------------------------------------------------------------------------
(* Add, subtract and compare on given register contents                     *)

\* the contents of v1 (vs) and of v2 (vt), lane 0 first
ArithVs == {
    <<0, 1, 32767, 32768, 65535, 4660, 32769, 65534>>,
    <<65535, 32768, 2, 32767, 1, 4660, 0, 43690>> }
ArithVt == <<65535, 1, 32767, 32768, 0, 4660, 32767, 2>>

\* the flag registers <<VCO, VCC>> the run starts from
ArithFlags == {<<0, 50010>>, <<42435, 0>>}

InitArith ==
    /\ \E ls \in ArithVs, fl \in ArithFlags :
          ctx = set_vcc(set_vco([ZeroContext EXCEPT !.vregs[1] = RegOfLanes(ls),
                                                    !.vregs[2] = RegOfLanes(ArithVt)],
                                fl[1]), fl[2])
    /\ regs = InitRegs
    /\ dmem = InitDmem
    /\ ret = "ok"
    /\ hist = <<>>
    /\ steps = 0

ARITH_NAMES == {"VADD", "VSUB", "VADDC", "VSUBC", "VEQ", "VNE", "VLT", "VGE"}

\* v1 <- v1 op v2[e], for every element selector
NextArith == \E name \in ARITH_NAMES, e \in 0..15 : VU(name, e, 2, 1, 1)

SpecArith == InitArith /\ [][NextArith]_vars

\* C5: VADDC vd <- vs, vt[e] followed by VSUBC vd' <- vd, vt[e], with vd not
\* the vt register, leaves vd' equal to the original vs in every lane.
C5_AddcThenSubc ==
    (/\ Executed(2) /\ hist[2].name = "VADDC" /\ hist[1].name = "VSUBC"
     /\ hist[1].args[1] = hist[2].args[1]
     /\ hist[1].args[2] = hist[2].args[2]
     /\ hist[1].args[3] = hist[2].args[4]
     /\ hist[2].args[4] # hist[2].args[2])
    => \A i \in 0..7 :
          lane(ctx.vregs[hist[1].args[4]], i) = lane(hist[2].ctx.vregs[hist[2].args[3]], i)

\* the pair has run with a quarter or half selector, the sum carried out of
\* some lanes and not of others
C5_Witness ==
    /\ Executed(2) /\ hist[2].name = "VADDC" /\ hist[1].name = "VSUBC"
    /\ hist[1].args = hist[2].args
    /\ hist[1].args[1] \in 2..7
    /\ Mixed(hist[1].ctx.vco_carry)

\* C6: with VCO all zero before it, VEQ sets each VCC_normal lane to 0xFFFF
\* when the vs lane equals the element-broadcast vt lane and to 0 otherwise,
\* and every VCC_clip lane to 0.
C6_VeqCleanFlags ==
    (/\ Executed(1) /\ hist[1].name = "VEQ"
     /\ hist[1].ctx.vco_carry = ZeroReg /\ hist[1].ctx.vco_ne = ZeroReg)
    => LET a == vs(hist[1].ctx, hist[1].args[3])
           b == vte(hist[1].ctx, hist[1].args[2], hist[1].args[1])
       IN  /\ \A j \in 0..7 : ctx.vcc_normal[j] = IF a[j] = b[j] THEN 65535 ELSE 0
           /\ \A j \in 0..7 : ctx.vcc_clip[j] = 0

\* VEQ has run from a clean VCO and set VCC clip lanes, with a broadcast
\* selector, and found some lanes equal and some not
C6_Witness ==
    /\ Executed(1) /\ hist[1].name = "VEQ"
    /\ hist[1].ctx.vco_carry = ZeroReg /\ hist[1].ctx.vco_ne = ZeroReg
    /\ hist[1].ctx.vcc_clip # ZeroReg
    /\ hist[1].args[1] >= 2
    /\ Mixed(ctx.vcc_normal)

-----------------------------------------------------------------------------
(* Loads and stores on given register contents                              *)

\* the vector registers the run starts from, one of two fillings
MemVregs(k) ==
    [i \in 0..31 |-> RegOfLanes([l \in 1..8 |-> ((i * 8 + l) * (1046 * k + 523) + k) % W16])]

InitMem ==
    /\ \E k \in 0..1 : ctx = [ZeroContext EXCEPT !.vregs = MemVregs(k)]
    /\ regs = InitRegs
    /\ dmem = InitDmem
    /\ ret = "ok"
    /\ hist = <<>>
    /\ steps = 0

\* <<base, offset>> of the 8-byte accesses: 0x10, 0xFF8 (the last 8 bytes),
\* 0xFFC (crossing the end) and 0x1000, which is address 0
PlainAddr == {<<2, 0>>, <<1, 0>>, <<6, 0>>, <<1, 1>>}
\* <<base, offset>> of the 16-byte aligned accesses: 0, 0x10, 0x20, 0xFF0
AlignedAddr == {<<0, 0>>, <<2, 0>>, <<2, 1>>, <<5, 0>>}

NextMem ==
    \/ \E e \in 0..15, a \in PlainAddr : SWC("SDV", 1, e, a[1], a[2])
    \/ \E e \in 0..15, a \in PlainAddr : LWC("LDV", 1, e, a[1], a[2])
    \/ \E name \in {"LQV", "LTV"}, r \in {9, 12}, e \in {0, 4}, a \in AlignedAddr :
          LWC(name, r, e, a[1], a[2])
    \/ \E name \in {"SQV", "STV"}, r \in {9, 12}, e \in {0, 4}, a \in AlignedAddr :
          SWC(name, r, e, a[1], a[2])
    \/ \E name \in LWC_NAMES : LWC(name, 1, 1, 4, 0)
    \/ \E name \in SWC_NAMES : SWC(name, 1, 1, 4, 0)

SpecMem == InitMem /\ [][NextMem]_vars

\* DMEM[0..0x1000) of the two memories is the same
SameDmem(m1, m2) ==
    \A a \in DOMAIN m1 \cup DOMAIN m2 : a < DMEM_SIZE => DmemAt(m1, a) = DmemAt(m2, a)

\* C7: for every register value, element and effective address in 0..0xFFF,
\* SDV followed by LDV with the same register, element and address leaves the
\* register as it was.
C7_SdvThenLdv ==
    (/\ Executed(2) /\ hist[2].name = "SDV" /\ hist[1].name = "LDV"
     /\ hist[1].args = hist[2].args)
    => ctx.vregs[hist[1].args[1]] = hist[2].ctx.vregs[hist[1].args[1]]

\* C8: at a 16-byte aligned address and element 0, LQV followed by SQV of the
\* same register leaves DMEM unchanged, and SQV followed by LQV leaves the
\* register as it was.
C8_QuadRoundTrip ==
    /\ (/\ Executed(2) /\ hist[2].name = "LQV" /\ hist[1].name = "SQV"
        /\ hist[1].args = hist[2].args /\ hist[1].args[2] = 0 /\ hist[1].x % 16 = 0)
       => SameDmem(dmem, hist[2].dmem)
    /\ (/\ Executed(2) /\ hist[2].name = "SQV" /\ hist[1].name = "LQV"
        /\ hist[1].args = hist[2].args /\ hist[1].args[2] = 0 /\ hist[1].x % 16 = 0)
       => ctx.vregs[hist[1].args[1]] = hist[2].ctx.vregs[hist[1].args[1]]

\* LQV at the last aligned address has replaced the register and SQV has
\* written it back
C8_Witness ==
    /\ Executed(2) /\ hist[2].name = "LQV" /\ hist[1].name = "SQV"
    /\ hist[1].args = hist[2].args /\ hist[1].args[2] = 0 /\ hist[1].x = 4080
    /\ ctx.vregs[hist[1].args[1]] # hist[2].ctx.vregs[hist[1].args[1]]
    /\ \A k \in 0..15 : k + 4080 \in DOMAIN dmem

\* C9: LTV with element 0 from the aligned address A into a register group,
\* then STV with element 0 from the same group to the aligned address B,
\* makes DMEM[B..B+16) equal to DMEM[A..A+16).
C9_TransposeCopy ==
    (/\ Executed(2) /\ hist[2].name = "LTV" /\ hist[1].name = "STV"
     /\ hist[2].args[2] = 0 /\ hist[1].args[2] = 0
     /\ hist[2].args[1] \div 8 = hist[1].args[1] \div 8
     /\ hist[2].x % 16 = 0 /\ hist[1].x % 16 = 0)
    => \A k \in 0..15 : DmemAt(dmem, hist[1].x + k) = DmemAt(hist[2].dmem, hist[2].x + k)

\* the copy went from address 0x10 to address 0xFF0 through v8..v15, named
\* by two different registers of the group
C9_Witness ==
    /\ Executed(2) /\ hist[2].name = "LTV" /\ hist[1].name = "STV"
    /\ hist[2].args[2] = 0 /\ hist[1].args[2] = 0
    /\ hist[2].args[1] = 9 /\ hist[1].args[1] = 12
    /\ hist[2].x = 16 /\ hist[1].x = 4080
    /\ \E k \in 0..15 : DmemAt(hist[1].dmem, 4080 + k) # DmemAt(dmem, 4080 + k)

\* C10: every plain vector load and store accesses DMEM modulo 0x1000: the
\* byte of logical address a is read from, respectively written to,
\* DMEM[a mod 0x1000].
C10_AccessesWrap ==
    Executed(1) =>
        LET h == hist[1]
            size == Pow2(OffsetShift(h.name))
            r == h.ctx.vregs[h.args[1]]
            e == h.args[2]
        IN  /\ h.name \in {"SBV", "SSV", "SLV", "SDV"} =>
                  \A k \in 0..(size - 1) :
                      DmemAt(dmem, (h.x + k) % DMEM_SIZE) = byte(r, (e + k) % 16)
            /\ h.name \in {"LBV", "LSV", "LLV", "LDV"} =>
                  \A k \in 0..(size - 1) :
                      e + k <= 15 =>
                          byte(ctx.vregs[h.args[1]], e + k) = DmemAt(h.dmem, (h.x + k) % DMEM_SIZE)

-----------------------------------------------------------------------------
(* Error outcomes                                                           *)

\* the calls the error table lists, by the record of the call
UnknownVuFunc(h) == h.name = "VU_unimplemented"
UnknownMove(h) == h.name = "COP2_unimplemented"
BadControlReg(h) == h.name \in {"CFC2", "CTC2"} /\ h.args[3] \notin {0, 1, 2}
BadVsarElement(h) == h.name = "VSAR" /\ h.args[1] \notin {0, 1, 2, 8, 9, 10}
UnknownLoadStore(h) == h.name \in {"lwc_unimplemented", "swc_unimplemented"}
ErrorCase(h) ==
    UnknownVuFunc(h) \/ UnknownMove(h) \/ BadControlReg(h) \/ BadVsarElement(h)
    \/ UnknownLoadStore(h)

\* C11: every unrecognised opcode given to op is reported by returning the
\* tracer's error value, never by aborting: an unknown VU function code
\* returns the tracer's panic error, and a COP2 move with e not in {0,2,4,6}
\* or a CFC2/CTC2 with rs not in {0,1,2} returns the debugger-break error.
C11_ErrorsAreReturned ==
    hist # <<>> =>
        LET h == hist[1]
        IN  /\ UnknownVuFunc(h) => ret = "panic"
            /\ (UnknownMove(h) \/ BadControlReg(h)) => ret = "break"

\* C12: on every error outcome (unknown VU function code, VSAR with e not in
\* {0,1,2,8,9,10}, unknown COP2 move, CFC2/CTC2 with rs not in {0,1,2},
\* unimplemented load or store sub-opcode) the call does not succeed and the
\* vector registers, accumulator, flags, div_in/div_out, the scalar registers
\* and DMEM are all as before the call.
C12_ErrorsLeaveState ==
    [][(hist' # <<>> /\ ErrorCase(hist'[1])) =>
        (ret' # "ok" /\ ctx' = ctx /\ regs' = regs /\ dmem' = dmem)]_vars

\* VSAR with an element it does not implement failed after v2 had been set
C12_Witness ==
    /\ Len(hist) = 2 /\ hist[2].name = "set_reg" /\ hist[2].args[1] = 2
    /\ BadVsarElement(hist[1]) /\ hist[1].args[4] = 2
    /\ ret # "ok" /\ ctx.vregs[2] # ZeroReg

-----------------------------------------------------------------------------
(* Saturating add and subtract                                              *)

\* the operands of the last VU operation, lane i: vs, the broadcast vt and the
\* carry-in, as signed numbers
OpVs(i) == S16(lane(hist[1].ctx.vregs[hist[1].args[3]], i))
OpVt(i) == S16(lane(setm128(vte(hist[1].ctx, hist[1].args[2], hist[1].args[1])), i))
OpCarry(i) == IF lane(hist[1].ctx.vco_carry, i) # 0 THEN 1 ELSE 0
\* the destination and accum.lo lanes it left
OutVd(i) == lane(ctx.vregs[hist[1].args[4]], i)
OutAccLo(i) == lane(ctx.accum[0], i)

\* C13: VADD sets each vd lane to the signed saturation of the exact sum
\* vs + vt + c to [-0x8000, 0x7FFF], the accum.lo lane to (vs + vt + c) mod
\* 2^16, and clears every carry and ne lane.
C13_VaddSaturates ==
    (Executed(1) /\ hist[1].name = "VADD") =>
        /\ \A i \in 0..7 :
              /\ OutVd(i) = U16(SatS16(OpVs(i) + OpVt(i) + OpCarry(i)))
              /\ OutAccLo(i) = (OpVs(i) + OpVt(i) + OpCarry(i)) % W16
        /\ ctx.vco_carry = ZeroReg /\ ctx.vco_ne = ZeroReg

\* a lane added 0x8000 + 0x8000 + 1 and came out as vd 0x8000, accum.lo 1
C13_Witness ==
    /\ Executed(1) /\ hist[1].name = "VADD"
    /\ \E i \in 0..7 :
          /\ OpVs(i) = -32768 /\ OpVt(i) = -32768 /\ OpCarry(i) = 1
          /\ OutVd(i) = 32768 /\ OutAccLo(i) = 1

\* C18: VSUB sets each vd lane to the signed saturation of the exact
\* difference vs - vt - c to [-0x8000, 0x7FFF], also where vt = 0x7FFF and
\* c = 1, the accum.lo lane to (vs - vt - c) mod 2^16, and clears every carry
\* and ne lane.
C18_VsubSaturates ==
    (Executed(1) /\ hist[1].name = "VSUB") =>
        /\ \A i \in 0..7 :
              /\ OutVd(i) = U16(SatS16(OpVs(i) - OpVt(i) - OpCarry(i)))
              /\ OutAccLo(i) = (OpVs(i) - OpVt(i) - OpCarry(i)) % W16
        /\ ctx.vco_carry = ZeroReg /\ ctx.vco_ne = ZeroReg

\* a lane subtracted 0x7FFF with the carry set from 0, within range, and
\* another from a negative number, saturating
C18_Witness ==
    /\ Executed(1) /\ hist[1].name = "VSUB"
    /\ \E i \in 0..7 : OpVs(i) = 0 /\ OpVt(i) = 32767 /\ OpCarry(i) = 1 /\ OutVd(i) = 32768
    /\ \E i \in 0..7 : OpVs(i) < -1 /\ OpVt(i) = 32767 /\ OpCarry(i) = 1 /\ OutVd(i) = 32768

-----------------------------------------------------------------------------
(* Scalar moves on given register contents                                  *)

InitMove ==
    /\ \E k \in 0..1 : ctx = [ZeroContext EXCEPT !.vregs = MemVregs(k)]
    /\ regs = InitRegs
    /\ dmem = InitDmem
    /\ ret = "ok"
    /\ hist = <<>>
    /\ steps = 0

\* the scalar registers moved: r3 = 0xFFFF_FFFF_FFFF_85A3 and r4 = 0x1_0FFD
MoveRt == {3, 4}
\* the vector registers moved to and from
MoveRs == {1, 2}

NextMove ==
    \/ \E rt \in MoveRt, rs \in MoveRs, rd \in 0..31 : MTC2(rt, rs, rd)
    \/ \E rt \in MoveRt, rs \in MoveRs, rd \in 0..31 : MFC2(rt, rs, rd)

SpecMove == InitMove /\ [][NextMove]_vars

\* C14: MTC2 with byte index b = rd >> 1 changes exactly bytes b and b + 1 of
\* vregs[rs] (only byte 15 when b = 15) and nothing else; MFC2 with the same
\* fields then leaves in cpu.regs[rt] the big-endian 16-bit value of bytes b
\* and (b + 1) mod 16, sign-extended to 64 bits, which for b <= 14 is the
\* sign-extended low 16 bits of the scalar MTC2 wrote.
C14_MoveToThenFrom ==
    [][(hist' # <<>> /\ hist'[1].ret = "ok") =>
        LET h == hist'[1]
            rt == h.args[2]
            rs == h.args[3]
            b == h.args[4] \div 2
        IN  /\ h.name = "MTC2" =>
                  /\ \A k \in 0..15 :
                        byte(ctx'.vregs[rs], k) =
                            IF k = b THEN (regs[rt][0] \div 256) % 256
                            ELSE IF k = b + 1 THEN regs[rt][0] % 256
                            ELSE byte(ctx.vregs[rs], k)
                  /\ ctx' = [ctx EXCEPT !.vregs[rs] = ctx'.vregs[rs]]
                  /\ regs' = regs /\ dmem' = dmem
            /\ (/\ h.name = "MFC2" /\ Len(hist') = 2 /\ hist'[2].name = "MTC2"
                /\ hist'[2].ret = "ok"
                /\ \A k \in 2..4 : hist'[2].args[k] = h.args[k]) =>
                  /\ regs'[rt] = Sx64(byte(ctx.vregs[rs], b) * 256
                                      + byte(ctx.vregs[rs], (b + 1) % 16))
                  /\ b <= 14 => regs'[rt] = Sx64(regs[rt][0])]_vars

\* the pair has run at byte index 15 on a register whose byte 0 is not zero,
\* and has changed the scalar register
C14_Witness ==
    /\ Executed(2) /\ hist[2].name = "MTC2" /\ hist[1].name = "MFC2"
    /\ \A k \in 2..4 : hist[1].args[k] = hist[2].args[k]
    /\ hist[1].args[4] \div 2 = 15
    /\ byte(ctx.vregs[hist[1].args[3]], 0) # 0
    /\ byte(ctx.vregs[hist[1].args[3]], 15) # byte(hist[2].ctx.vregs[hist[1].args[3]], 15)
    /\ regs[hist[1].args[2]] # InitRegs[hist[1].args[2]]

-----------------------------------------------------------------------------
(* The element broadcast, seen through operations that copy it              *)

\* the contents of v2 (vt), lane 0 first; v1 (vs) is zero
VteVectors == {
    <<4369, 8738, 13107, 17476, 21845, 26214, 30583, 34952>>,
    <<65535, 1, 32767, 32768, 0, 4660, 32766, 2>> }

InitVte ==
    /\ \E ls \in VteVectors : ctx = [ZeroContext EXCEPT !.vregs[2] = RegOfLanes(ls)]
    /\ regs = InitRegs
    /\ dmem = InitDmem
    /\ ret = "ok"
    /\ hist = <<>>
    /\ steps = 0

\* with vs = 0 each of these leaves vte in vd
VTE_NAMES == {"VOR", "VXOR", "VADDC"}

\* v3 <- v1 op v2[e]
NextVte == \E name \in VTE_NAMES, e \in 0..15 : VU(name, e, 2, 1, 3)

SpecVte == InitVte /\ [][NextVte]_vars

\* the vt lane that lane i receives, lanes numbered from the most significant
QuarterLow(i) == (i \div 2) * 2
QuarterHigh(i) == (i \div 2) * 2 + 1
Half(i) == (i \div 4) * 4
StatedLane(e, i) ==
    IF e <= 1 THEN i
    ELSE IF e = 2 THEN QuarterHigh(i)
    ELSE IF e = 3 THEN QuarterLow(i)
    ELSE IF e <= 7 THEN Half(i) + (7 - e)
    ELSE e - 8
DecodedLane(e, i) ==
    IF e <= 1 THEN i
    ELSE IF e = 2 THEN QuarterLow(i)
    ELSE IF e = 3 THEN QuarterHigh(i)
    ELSE IF e <= 7 THEN Half(i) + (e - 4)
    ELSE e - 8

\* an operation has copied the broadcast of vt into vd
CopiedVte ==
    /\ Executed(1) /\ hist[1].name \in VTE_NAMES
    /\ hist[1].ctx.vregs[hist[1].args[3]] = ZeroReg

\* C15: with lane 0 most significant, vte is the identity for e in {0,1}; for
\* e = 4, 5, 6, 7 every lane of each half equals lane 3, 2, 1, 0 of that half;
\* for e = 2 each half becomes lanes (1,1,3,3) of that half and for e = 3
\* lanes (0,0,2,2); for e in 8..15 all lanes equal vt lane e - 8.
C15_VteAsStated ==
    CopiedVte =>
        \A i \in 0..7 :
            lane(ctx.vregs[hist[1].args[4]], i)
                = lane(hist[1].ctx.vregs[hist[1].args[2]], StatedLane(hist[1].args[1], i))

\* C15, amended: for e = 2 each half becomes lanes (0,0,2,2) of that half, for
\* e = 3 lanes (1,1,3,3), and for e = 4, 5, 6, 7 every lane of each half
\* equals lane 0, 1, 2, 3 of that half; e in {0,1} and e in 8..15 as stated.
C15_VteAsDecoded ==
    CopiedVte =>
        \A i \in 0..7 :
            lane(ctx.vregs[hist[1].args[4]], i)
                = lane(hist[1].ctx.vregs[hist[1].args[2]], DecodedLane(hist[1].args[1], i))

\* the broadcast with e = 2 of a register with eight different lanes
C15_Witness ==
    /\ CopiedVte /\ hist[1].args[1] = 2
    /\ \A i, j \in 0..7 :
          i # j => lane(hist[1].ctx.vregs[hist[1].args[2]], i)
                       # lane(hist[1].ctx.vregs[hist[1].args[2]], j)
    /\ lane(ctx.vregs[hist[1].args[4]], 1) = lane(hist[1].ctx.vregs[hist[1].args[2]], 0)

-----------------------------------------------------------------------------
(* Compares and selects                                                     *)

\* the flag lanes the last VU operation started from
OpNe(i) == lane(hist[1].ctx.vco_ne, i) # 0
OpCarrySet(i) == lane(hist[1].ctx.vco_carry, i) # 0
\* select(mask, vs, vt) of the last VU operation, lane i, vt the broadcast operand
SelectOut(mask, i) == IF mask THEN U16(OpVs(i)) ELSE U16(OpVt(i))

\* C16: for every element selector, VNE writes into each vd lane and accum.lo
\* lane the vs lane where ne_out is set and otherwise the lane of the
\* element-broadcast vt used in the comparison, where ne_out = (vs != vt) OR
\* ((vs == vt) AND ne); never a lane of the un-broadcast vt that differs.
C16_VneSelectsBroadcast ==
    (Executed(1) /\ hist[1].name = "VNE") =>
        \A i \in 0..7 :
            LET ne_out == OpVs(i) # OpVt(i) \/ (OpVs(i) = OpVt(i) /\ OpNe(i))
            IN  /\ OutVd(i) = SelectOut(ne_out, i)
                /\ OutAccLo(i) = SelectOut(ne_out, i)
                /\ lane(ctx.vcc_normal, i) = Mask(ne_out)

\* C17: VLT sets VCC_normal to lt = (vs < vt) OR ((vs == vt) AND carry AND ne)
\* and VGE sets it to ge = (vs > vt) OR ((vs == vt) AND NOT (carry AND ne));
\* each writes select(mask, vs, vt) to vd and accum.lo and leaves VCC_clip,
\* carry and ne zero.  The two masks are complementary in every lane, and with
\* VCO = 0 VLT yields the signed minimum and VGE the signed maximum.
C17_LessAndGreaterEqual ==
    (Executed(1) /\ hist[1].name \in {"VLT", "VGE"}) =>
        /\ \A i \in 0..7 :
              LET lt == OpVs(i) < OpVt(i)
                          \/ (OpVs(i) = OpVt(i) /\ OpCarrySet(i) /\ OpNe(i))
                  ge == OpVs(i) > OpVt(i)
                          \/ (OpVs(i) = OpVt(i) /\ ~(OpCarrySet(i) /\ OpNe(i)))
                  mask == IF hist[1].name = "VLT" THEN lt ELSE ge
              IN  /\ lt # ge
                  /\ lane(ctx.vcc_normal, i) = Mask(mask)
                  /\ OutVd(i) = SelectOut(mask, i)
                  /\ OutAccLo(i) = SelectOut(mask, i)
                  /\ (hist[1].ctx.vco_carry = ZeroReg /\ hist[1].ctx.vco_ne = ZeroReg) =>
                        OutVd(i) = U16(IF hist[1].name = "VLT"
                                       THEN Min(OpVs(i), OpVt(i))
                                       ELSE Max(OpVs(i), OpVt(i)))
        /\ ctx.vcc_clip = ZeroReg /\ ctx.vco_carry = ZeroReg /\ ctx.vco_ne = ZeroReg

\* VLT has run on a lane of equal operands with carry and ne set, and on
\* lanes that compare both ways
C17_Witness ==
    /\ Executed(1) /\ hist[1].name = "VLT"
    /\ \E i \in 0..7 : OpVs(i) = OpVt(i) /\ OpCarrySet(i) /\ OpNe(i)
                          /\ lane(ctx.vcc_normal, i) = 65535
    /\ \E i \in 0..7 : OpVs(i) = OpVt(i) /\ ~OpNe(i) /\ lane(ctx.vcc_normal, i) = 0
    /\ \E i \in 0..7 : OpVs(i) > OpVt(i)
    /\ hist[1].ctx.vcc_clip # ZeroReg \/ hist[1].ctx.vco_ne # ZeroReg

-----------------------------------------------------------------------------
(* Carry and borrow                                                         *)

\* the operands of the last VU operation, lane i, as unsigned numbers
OpVsU(i) == lane(hist[1].ctx.vregs[hist[1].args[3]], i)
OpVtU(i) == lane(setm128(vte(hist[1].ctx, hist[1].args[2], hist[1].args[1])), i)

\* C19: after VADDC the carry lane is 0xFFFF exactly when the unsigned sum
\* vs + vt exceeded 0xFFFF and every ne lane is 0; after VSUBC the carry lane
\* is 0xFFFF exactly when vs < vt as unsigned values and the ne lane is
\* 0xFFFF exactly when vs != vt.  Neither changes VCC or VCE.
C19_CarryAndBorrow ==
    (Executed(1) /\ hist[1].name \in {"VADDC", "VSUBC"}) =>
        /\ \A i \in 0..7 :
              IF hist[1].name = "VADDC"
              THEN /\ lane(ctx.vco_carry, i) = Mask(OpVsU(i) + OpVtU(i) > 65535)
                   /\ lane(ctx.vco_ne, i) = 0
              ELSE /\ lane(ctx.vco_carry, i) = Mask(OpVsU(i) < OpVtU(i))
                   /\ lane(ctx.vco_ne, i) = Mask(OpVsU(i) # OpVtU(i))
        /\ ctx.vcc_normal = hist[1].ctx.vcc_normal
        /\ ctx.vcc_clip = hist[1].ctx.vcc_clip
        /\ ctx.vce = hist[1].ctx.vce

\* VSUBC has run from a non-zero VCC on lanes that borrow although vs > vt as
\* signed numbers, and on lanes that are equal
C19_Witness ==
    /\ Executed(1) /\ hist[1].name = "VSUBC"
    /\ \E i \in 0..7 : OpVsU(i) < OpVtU(i) /\ OpVs(i) > OpVt(i)
                          /\ lane(ctx.vco_carry, i) = 65535
    /\ \E i \in 0..7 : OpVsU(i) = OpVtU(i) /\ lane(ctx.vco_ne, i) = 0
    /\ ctx.vcc_normal # ZeroReg /\ hist[1].ctx.vco_ne = ZeroReg

-----------------------------------------------------------------------------
(* VSAR on a given accumulator                                              *)

\* the three slices of the accumulator the run starts from: lane i of slice k
SarAccum == [k \in 0..2 |-> RegOfLanes([l \in 1..8 |-> 4096 * (k + 1) + 257 * l])]

InitSar ==
    /\ \E fl \in ArithFlags :
          ctx = set_vcc(set_vco([ZeroContext EXCEPT !.accum = SarAccum,
                                                    !.vregs[1] = RegOfLanes(ArithVt),
                                                    !.vregs[2] = RegOfLanes(ArithVt)],
                                fl[1]), fl[2])
    /\ regs = InitRegs
    /\ dmem = InitDmem
    /\ ret = "ok"
    /\ hist = <<>>
    /\ steps = 0

\* VSAR with every element, into v1 or v3; VADDC changes accum.lo in between
NextSar ==
    \/ \E e \in 0..15, rd \in {1, 3} : VU("VSAR", e, 2, 1, rd)
    \/ \E e \in {0, 9} : VU("VADDC", e, 2, 1, 1)

SpecSar == InitSar /\ [][NextSar]_vars

\* VSAR has run with an element it implements
SarRan == Executed(1) /\ hist[1].name = "VSAR"

\* C20: VSAR never writes the accumulator or any flag register: with e = 8,
\* 9, 10 it copies accumulator slice LO, MD, HI respectively into vd, with e
\* in {0,1,2} it sets every vd lane to 0, and all three accumulator slices are
\* the same after the instruction as before.
C20_SarSlicesAsStated ==
    SarRan =>
        ctx = [hist[1].ctx EXCEPT !.vregs[hist[1].args[4]] =
                   IF hist[1].args[1] <= 2 THEN ZeroReg
                   ELSE hist[1].ctx.accum[hist[1].args[1] - 8]]

\* C20, amended: with e = 8, 9, 10 VSAR copies accumulator slice HI, MD, LO
\* respectively into vd; with e in {0,1,2} it sets every vd lane to 0; it
\* writes nothing but vd, so the accumulator and the flags are as before.
C20_SarSlicesHighFirst ==
    SarRan =>
        ctx = [hist[1].ctx EXCEPT !.vregs[hist[1].args[4]] =
                   IF hist[1].args[1] <= 2 THEN ZeroReg
                   ELSE hist[1].ctx.accum[10 - hist[1].args[1]]]

\* VSAR with e = 8 has replaced vd while the three slices differ and the
\* flags are not zero
C20_Witness ==
    /\ SarRan /\ hist[1].args[1] = 8
    /\ ctx.accum[0] # ctx.accum[1] /\ ctx.accum[1] # ctx.accum[2] /\ ctx.accum[0] # ctx.accum[2]
    /\ ctx.vregs[hist[1].args[4]] = ctx.accum[2]
    /\ ctx.vregs[hist[1].args[4]] # hist[1].ctx.vregs[hist[1].args[4]]
    /\ \E r \in FlagRegs(ctx) : r # ZeroReg

-----------------------------------------------------------------------------
(* Plain loads with every element                                           *)

PLAIN_LOADS == {"LBV", "LSV", "LLV", "LDV"}

\* v1 <- DMEM, 1, 2, 4 or 8 bytes, at every element
NextLoad == \E name \in PLAIN_LOADS, e \in 0..15, a \in PlainAddr : LWC(name, 1, e, a[1], a[2])

SpecLoad == InitMem /\ [][NextLoad]_vars

\* a plain load has run: its size, element, address, and the register before
LoadRan == Executed(1) /\ hist[1].name \in PLAIN_LOADS
LoadSize == Pow2(OffsetShift(hist[1].name))
LoadElement == hist[1].args[2]
LoadedByte(k) == DmemAt(hist[1].dmem, (hist[1].x + k) % DMEM_SIZE)
LoadOld(j) == byte(hist[1].ctx.vregs[hist[1].args[1]], j)
LoadNew(j) == byte(ctx.vregs[hist[1].args[1]], j)

\* C21: LBV/LSV/LLV/LDV deposit their 2^op loaded bytes at register bytes
\* element, element + 1, ... taken modulo 16: when element + 2^op > 16 the
\* trailing bytes wrap around to bytes 0.. of the register.
C21_LoadWrapsInRegister ==
    LoadRan =>
        \A k \in 0..(LoadSize - 1) : LoadNew((LoadElement + k) % 16) = LoadedByte(k)

\* C21, amended: the loaded byte k goes to register byte element + k only
\* while element + k <= 15; the trailing bytes are dropped, and every other
\* byte of the register, bytes 0.. included, keeps its value.
C21_LoadStopsAtByte15 ==
    LoadRan =>
        \A j \in 0..15 :
            LoadNew(j) = IF j >= LoadElement /\ j < LoadElement + LoadSize
                         THEN LoadedByte(j - LoadElement)
                         ELSE LoadOld(j)

\* LDV with element 12 has replaced bytes 12..15 and kept bytes 0..3, which
\* differ from the four trailing bytes read
C21_Witness ==
    /\ LoadRan /\ hist[1].name = "LDV" /\ LoadElement = 12
    /\ \A j \in 12..15 : LoadNew(j) = LoadedByte(j - 12) /\ LoadNew(j) # LoadOld(j)
    /\ \A j \in 0..3 : LoadNew(j) = LoadOld(j) /\ LoadNew(j) # LoadedByte(j + 4)

-----------------------------------------------------------------------------
(* Quadword loads and stores at any alignment                               *)

\* the base registers: r2 = 0x10, r3 = ..85A3 (ea 0x5A3), r1 = 0xFF8,
\* r4 = 0x1_0FFD (ea 0xFFD) and r5 = 0xFF0
QuadBases == {2, 3, 1, 4, 5}

\* v1 <-> DMEM; offset 1 is the address 16 bytes on
NextQuad ==
    \/ \E e \in 0..15, b \in QuadBases, o \in 0..1 : LWC("LQV", 1, e, b, o)
    \/ \E b \in QuadBases, o \in 0..1 : LWC("LRV", 1, 0, b, o)
    \/ \E b \in QuadBases, o \in 0..1 : SWC("SQV", 1, 0, b, o)
    \/ \E b \in QuadBases, o \in 0..1 : SWC("SRV", 1, 0, b, o)

SpecQuad == InitMem /\ [][NextQuad]_vars

\* C22: LQV modifies only the register bytes that receive loaded data: with
\* n = 16 - (ea & 0xF) it writes DMEM[ea + k] into register byte element + k
\* for 0 <= k < min(n, 16 - element), every other byte of the target register
\* keeps its value, and no other register and no DMEM byte changes.
C22_LqvKeepsOtherBytes ==
    (Executed(1) /\ hist[1].name = "LQV") =>
        LET h == hist[1]
            r == h.args[1]
            e == h.args[2]
            n == 16 - (h.x % 16)
        IN  /\ \A j \in 0..15 :
                  byte(ctx.vregs[r], j) =
                      IF j >= e /\ j < e + Min(n, 16 - e)
                      THEN DmemAt(h.dmem, h.x + (j - e))
                      ELSE byte(h.ctx.vregs[r], j)
            /\ ctx = [h.ctx EXCEPT !.vregs[r] = ctx.vregs[r]]
            /\ SameDmem(dmem, h.dmem)

\* the last two operations were `first` at ea and `second` at ea + 16, both
\* with element 0 and the same register
PairRan(first, second) ==
    /\ Executed(2) /\ hist[2].name = first /\ hist[1].name = second
    /\ hist[2].args[1] = hist[1].args[1]
    /\ hist[2].args[2] = 0 /\ hist[1].args[2] = 0
    /\ hist[1].x = (hist[2].x + 16) % DMEM_SIZE
\* the distance of address a from ea, around the end of DMEM
PairIndex(a) == (a - hist[2].x) % DMEM_SIZE

\* C25: for every ea, aligned or not, the last 16 bytes of DMEM included, and
\* element 0: SQV of V at ea followed by SRV of V at ea + 16 writes exactly
\* the 16 bytes of V, in order, to DMEM[ea..ea+15] (mod 0x1000) and changes
\* no other DMEM byte; LQV from ea followed by LRV from ea + 16 into one
\* register makes that register equal to those 16 bytes.
C25_SplitQuadPairs ==
    /\ PairRan("SQV", "SRV") =>
          \A a \in (DOMAIN dmem \cup DOMAIN hist[2].dmem
                      \cup {(hist[2].x + k) % DMEM_SIZE : k \in 0..15}) :
              a < DMEM_SIZE =>
                  DmemAt(dmem, a) = IF PairIndex(a) < 16
                                    THEN byte(hist[2].ctx.vregs[hist[2].args[1]], PairIndex(a))
                                    ELSE DmemAt(hist[2].dmem, a)
    /\ PairRan("LQV", "LRV") =>
          /\ \A j \in 0..15 :
                byte(ctx.vregs[hist[1].args[1]], j)
                    = DmemAt(hist[2].dmem, (hist[2].x + j) % DMEM_SIZE)
          /\ SameDmem(dmem, hist[2].dmem)

\* the store pair has run at 0xFFD: three bytes at the end of DMEM and
\* thirteen at its start have changed
C25_Witness ==
    /\ PairRan("SQV", "SRV") /\ hist[2].x = 4093
    /\ DmemAt(dmem, 4095) # DmemAt(hist[2].dmem, 4095)
    /\ DmemAt(dmem, 0) # DmemAt(hist[2].dmem, 0)
    /\ DmemAt(dmem, 12) # DmemAt(hist[2].dmem, 12)
    /\ hist[1].ctx.vregs = ctx.vregs

-----------------------------------------------------------------------------
(* The two latches of the reciprocal family, step by step                   *)

DIV_HIGH == {"VRCPH", "VRSQH"}
DIV_LOW == {"VRCPL", "VRSQL"}
DIV_RESULT == {"VRCP", "VRCPL", "VRSQ", "VRSQL"}
\* the kernel an operation of the family runs
DivKernel(name, arg) == IF name \in {"VRSQ", "VRSQL"} THEN vrsq(arg) ELSE vrcp(arg)

\* C23: VRCPL and VRSQL use the 32-bit argument div_in | x exactly when a
\* VRCPH or VRSQH has executed since the last VRCPL/VRSQL (or since reset),
\* and otherwise x sign-extended: the latch is empty at reset, is pending
\* after VRCPH/VRSQH with x << 16, empty after VRCPL/VRSQL and as before
\* after anything else; so the second of two consecutive low operations uses
\* the sign-extended input, and a latch set by either high operation is
\* consumed by either low operation.
C23_LatchDecidesArgument ==
    /\ [](hist = <<>> => ~ctx.div_in.some)
    /\ [][(hist' # <<>> /\ ret' = "ok") =>
            LET h == hist'[1]
            IN  /\ ctx'.div_in.some = (IF h.name \in DIV_HIGH THEN TRUE
                                       ELSE IF h.name \in DIV_LOW THEN FALSE
                                       ELSE ctx.div_in.some)
                /\ h.name \in DIV_HIGH => ctx'.div_in.val = Shl16_32(h.x)
                /\ h.name \in DIV_LOW =>
                      /\ ctx'.div_out =
                             DivKernel(h.name, IF ctx.div_in.some
                                               THEN Or32(Zx32(h.x), ctx.div_in.val)
                                               ELSE Sx32(h.x))
                      /\ (Len(hist') = 2 /\ hist'[2].name \in DIV_LOW) =>
                             ctx'.div_out = DivKernel(h.name, Sx32(h.x))
                      /\ (Len(hist') = 2 /\ hist'[2].name \in DIV_HIGH) =>
                             ctx'.div_out =
                                 DivKernel(h.name, Or32(Zx32(h.x), Shl16_32(hist'[2].x)))
                      /\ Len(hist') = 1 => ctx'.div_out = DivKernel(h.name, Sx32(h.x))]_vars

\* a latch set by VRCPH was consumed by VRSQL, on a low half whose sign
\* extension gives another result
C23_Witness ==
    /\ Executed(2) /\ hist[2].name = "VRCPH" /\ hist[1].name = "VRSQL"
    /\ hist[2].x \notin {0, 65535}
    /\ ~ctx.div_in.some
    /\ ctx.div_out # vrsq(Sx32(hist[1].x))

\* C24: VRCPH and VRSQH write into the selected destination lane the high
\* 16 bits of the result of the most recent VRCP, VRCPL, VRSQ or VRSQL (0 if
\* none has executed since reset), change no other lane of the destination
\* register, and never modify div_out; so VRCPL followed by VRCPH delivers
\* the low and then the high half of the same 32-bit reciprocal.
C24_HighHalfOfLastResult ==
    /\ [](hist = <<>> => ctx.div_out = U32Zero)
    /\ [][(hist' # <<>> /\ ret' = "ok") =>
            LET h == hist'[1]
                rd == h.args[4]
                l == h.args[3] % 8
            IN  /\ h.name \notin DIV_RESULT => ctx'.div_out = ctx.div_out
                /\ h.name \in DIV_RESULT => lane(ctx'.vregs[rd], l) = ctx'.div_out.lo
                /\ h.name \in DIV_HIGH =>
                      /\ ctx'.vregs[rd] = setlane(ctx.vregs[rd], l, ctx.div_out.hi)
                      /\ Len(hist') = 1 => lane(ctx'.vregs[rd], l) = 0
                      /\ (Len(hist') = 2 /\ hist'[2].name = "VRCPL" /\ h.name = "VRCPH") =>
                            LET res == vrcp(IF hist'[2].ctx.div_in.some
                                            THEN Or32(Zx32(hist'[2].x), hist'[2].ctx.div_in.val)
                                            ELSE Sx32(hist'[2].x))
                            IN  /\ lane(ctx.vregs[hist'[2].args[4]], hist'[2].args[3] % 8) = res.lo
                                /\ lane(ctx'.vregs[rd], l) = res.hi]_vars

\* VRCPL and then VRCPH have delivered the two halves of a reciprocal whose
\* halves differ, into a register with other non-zero lanes
C24_Witness ==
    /\ Executed(2) /\ hist[2].name = "VRCPL" /\ hist[1].name = "VRCPH"
    /\ ctx.div_out.hi # ctx.div_out.lo /\ ctx.div_out.hi # 0
    /\ lane(ctx.vregs[hist[1].args[4]], hist[1].args[3] % 8) = ctx.div_out.hi
    /\ \E i \in 0..7 : i # hist[1].args[3] % 8 /\ lane(ctx.vregs[hist[1].args[4]], i) # 0

=============================================================================
